---- MODULE Spec2Model ----
(***************************************************************************)
(* A model of the fast_rag orchestration control plane:                    *)
(*   - ReasoningEngine.process_query / process_query_stream                *)
(*     (src/app/services/reasoning_engine.py), one request at a time, with *)
(*     its collaborators (screener, classifier, retriever, planner, tool   *)
(*     executor, router, generator, multi-agent system, judge) returning   *)
(*     any value of small sets;                                            *)
(*   - TokenBudgetManager (src/app/core/rate_limiter.py) with a clock;     *)
(*   - Planner.create_plan (src/app/services/planner.py).                  *)
(* Scores are integers in hundredths (0.75 is 75); times are integers in   *)
(* milliseconds.                                                           *)
(***************************************************************************)
EXTENDS Integers, Sequences, FiniteSets, TLC

(***************************************************************************)
(* Program constants                                                       *)
(***************************************************************************)
\* reasoning_engine.py:19  self.MAX_RETRIES = 2
MAX_RETRIES == 2
\* reasoning_engine.py:88 / 266  if top_score < 0.75
GateThreshold == 75
\* reasoning_engine.py:158 / 359  if grounding_score < 0.3
AbortThreshold == 30
\* reasoning_engine.py:164 / 365  if grounding_score < 0.60
GroundingThreshold == 60

(***************************************************************************)
(* Bounds of the model                                                     *)
(***************************************************************************)
\* longest plan a planner (or its mock) returns
MaxSteps == 2
\* most tokens one synthesis call yields
MaxTokens == 1

QUOTE == "\""
NL == "\n"

(***************************************************************************)
(* Python dictionaries are records whose fields may be missing.            *)
(***************************************************************************)
\* key in d
Has(d, k) == k \in DOMAIN d
\* d.get(k, default)
Get(d, k, default) == IF k \in DOMAIN d THEN d[k] ELSE default
\* the field r when b holds, no field otherwise
Opt(b, r) == IF b THEN r ELSE <<>>
\* a model call that raised, or whose text is not JSON
CallFailed == [failed |-> TRUE]

(***************************************************************************)
(* Sequences helpers                                                       *)
(***************************************************************************)
SeqsUpTo(S, n) == UNION {[1..k -> S] : k \in 0..n}

RECURSIVE JoinLines(_)
\* "\n".join(tools_list), on lines that are token sequences
JoinLines(lines) ==
    IF lines = <<>> THEN <<>>
    ELSE IF Len(lines) = 1 THEN lines[1]
    ELSE lines[1] \o <<NL>> \o JoinLines(Tail(lines))

\* index of the first QUOTE of toks at or after i, 0 when there is none
NextQuote(toks, i) ==
    IF \E j \in i..Len(toks) : toks[j] = QUOTE
    THEN CHOOSE j \in i..Len(toks) :
            /\ toks[j] = QUOTE
            /\ \A k \in i..(j - 1) : toks[k] /= QUOTE
    ELSE 0

RECURSIVE FindAllQuoted(_, _)
\* re.findall(r'"([^"]+)"', text) from position i: the non-empty runs of
\* non-quote tokens between one quote and the next, scanning left to right
\* and resuming after the closing quote of each match.
FindAllQuoted(toks, i) ==
    LET open == NextQuote(toks, i) IN
    IF open = 0 THEN {}
    ELSE LET close == NextQuote(toks, open + 1) IN
         IF close = 0 THEN {}
         ELSE IF close = open + 1 THEN FindAllQuoted(toks, close)
         ELSE {SubSeq(toks, open + 1, close - 1)} \cup FindAllQuoted(toks, close + 1)

(***************************************************************************)
(* The per-attempt tool registry (reasoning_engine.py:63-76, 233-249)      *)
(***************************************************************************)
ToolLine(n, name, descr) == <<n, QUOTE, name, QUOTE, ":", descr>>

BaseToolsList ==
    << ToolLine("1. ", "hybrid_retriever", " Search across Vector DB"),
       ToolLine("2. ", "web_search", " Search the live internet"),
       ToolLine("3. ", "summarizer", " Generate summaries") >>

CodeInterpreterLine == ToolLine("4. ", "code_interpreter", " Execute Python code")

\* a registry that offers the code interpreter to every query
UngatedToolsList(requires_comp, requires_ext) ==
    Append(BaseToolsList, CodeInterpreterLine)

\* tools_list after the conditional append of the code_interpreter line
ToolsList(requires_comp, requires_ext) ==
    IF requires_comp \/ requires_ext
    THEN Append(BaseToolsList, CodeInterpreterLine)
    ELSE BaseToolsList

\* allowed_tool_names = set(re.findall(r'"([^"]+)"', "\n".join(tools_list)))
AllowedToolNames(tools_list) == FindAllQuoted(JoinLines(tools_list), 1)


(***************************************************************************)
(* Collaborator return values                                              *)
(***************************************************************************)
\* What the screener's model call yields: a failed call, or a JSON object
\* any of whose fields may be missing.
RawAssessments ==
    {CallFailed} \cup
    { Opt(s /= "missing", [is_safe |-> (s = "true")])
        @@ Opt(l, [threat_detected |-> "Jailbreak", risk_score |-> 90])
        @@ Opt(r, [reasoning |-> "threat explained"])
      : s \in {"true", "false", "missing"}, l \in BOOLEAN, r \in BOOLEAN }

DefaultAssessment == [is_safe |-> TRUE, threat_detected |-> "None", risk_score |-> 0]

\* a screener that blocks the query when its model call fails
InspectQueryFailingClosed(raw) ==
    IF raw = CallFailed \/ ~Has(raw, "is_safe")
    THEN [is_safe |-> FALSE, threat_detected |-> "Unknown", risk_score |-> 100,
          reasoning |-> "screener failure"]
    ELSE raw

\* StressTester.inspect_query: the parsed object, or the permissive default
\* when the call fails or a field read inside the try block is missing.
InspectQuery(raw) ==
    IF raw = CallFailed THEN DefaultAssessment
    ELSE IF ~Has(raw, "is_safe") THEN DefaultAssessment
    ELSE IF ~raw.is_safe /\ ~(Has(raw, "threat_detected") /\ Has(raw, "risk_score"))
         THEN DefaultAssessment
    ELSE raw

\* What the classifier's model call yields.
RawIntents ==
    {CallFailed} \cup
    { [type |-> "conceptual"]
        @@ Opt(c /= "missing", [requires_computation |-> (c = "true")])
        @@ Opt(e /= "missing", [requires_external_execution |-> (e = "true")])
      : c \in {"true", "false", "missing"}, e \in {"true", "false", "missing"} }

\* QueryClassifier.classify_query: the parsed object, or the neutral default
ClassifyQuery(raw) ==
    IF raw = CallFailed
    THEN [type |-> "general", requires_computation |-> FALSE,
          requires_external_execution |-> FALSE]
    ELSE raw

\* What retrieve(query, top_k=1) yields at the gate: an exception, or a list
\* of passages; a passage carries 'score' when the reranker scored it.
GateScores == {GateThreshold - 1, GateThreshold}
GateChunks ==
    { [text |-> "passage"]
        @@ Opt(s >= 0, [score |-> s]) @@ Opt(d >= 0, [dense_score |-> d])
      : s \in GateScores \cup {-1}, d \in GateScores \cup {-1} }
GateReturns ==
    {CallFailed} \cup {[chunks |-> <<>>]} \cup {[chunks |-> <<c>>] : c \in GateChunks}

\* pre_check_chunks[0].get('score', pre_check_chunks[0].get('dense_score', 0))
TopScore(chunk) == Get(chunk, "score", Get(chunk, "dense_score", 0))

\* Plan steps as a planner (or a test's mock of it) may return them: three
\* well-formed steps and one without the optional 'reason'.
StepShapes ==
    { [tool |-> "hybrid_retriever", input |-> "str", reason |-> "why"],
      [tool |-> "summarizer", input |-> "str", reason |-> "why"],
      [tool |-> "code_interpreter", input |-> "str", reason |-> "why"],
      [tool |-> "summarizer", input |-> "str"] }

\* Step lists holding a tool no registry has, or an input that is no string.
UnregisteredStep == [tool |-> "document_retriever", input |-> "str", reason |-> "why"]
NonStringStep == [tool |-> "hybrid_retriever", input |-> "dict", reason |-> "why"]
MalformedStepLists ==
    { <<UnregisteredStep>>,
      <<[tool |-> "hybrid_retriever", input |-> "str", reason |-> "why"], NonStringStep>> }

\* The steps of a schema-valid plan carry a step_id, here their position;
\* a step without a reason comes from a mock and carries none.
Numbered(st) ==
    [i \in 1..Len(st) |->
        IF Has(st[i], "reason") THEN [step_id |-> i] @@ st[i] ELSE st[i]]

\* What create_plan (or a test's mock of it) returns: a dictionary whose
\* action and steps may be missing.
PlannerReturns ==
    { [final_instruction |-> "instruction", action |-> "execute", steps |-> Numbered(st)]
      : st \in SeqsUpTo(StepShapes, MaxSteps) \cup MalformedStepLists }
    \cup
    { [final_instruction |-> "instruction"]
        @@ Opt(a /= "missing", [action |-> a]) @@ Opt(hs, [steps |-> <<>>])
      : a \in {"execute", "refuse", "registry_violation", "missing"}, hs \in BOOLEAN }

\* What a tool handler yields: an empty result, or an exception (any other
\* result is, like the error text, a non-empty output).
HandlerRuns == {"empty", "raises"}

\* ToolExecutor.execute_step on a step that passed its structural checks
\* (tool_executor.py:42-62); a step_id or tool of None is a missing field
ExecuteStep(step, run) ==
    Opt(Has(step, "step_id"), [step_id |-> Get(step, "step_id", 0)]) @@
    [tool |-> step.tool,
     output |-> IF step.tool = "summarizer" THEN "Summary of: input"
                ELSE IF step.tool = "code_interpreter" THEN "Code execution result placeholder"
                ELSE IF step.tool \notin {"hybrid_retriever", "web_search"}
                THEN "Error: Unknown tool"
                ELSE IF run = "raises" THEN "Error: handler failed"
                ELSE run]

\* a router for which an error text is no output
EmptyOrErrorOutput(res) ==
    Get(res, "output", "empty") \in {"empty", "Error: handler failed", "Error: Unknown tool"}

\* not res.get("output")
EmptyOutput(res) == Get(res, "output", "empty") = "empty"

\* ConditionalRouter.route
Route(p, res) ==
    LET has_results ==
            \E i \in 1..Len(res) :
                Get(res[i], "tool", "None") /= "summarizer" /\ ~EmptyOutput(res[i])
    IN IF ~has_results THEN "multi_agent_system" ELSE "generator"

\* One upstream completion: the tokens it streams and whether it fails after them.
TokenRuns == { [tokens |-> [i \in 1..k |-> "tok"], fails |-> f] : k \in 0..MaxTokens, f \in BOOLEAN }

SystemError == "[System Error]"

\* GeneratorService.generate_stream: the tokens, then the error text if the call failed
GenerateStream(run) == run.tokens \o (IF run.fails THEN <<SystemError>> ELSE <<>>)

RECURSIVE GenerateFrom(_, _)
\* GeneratorService.generate: the tokens joined, or the error token alone
GenerateFrom(toks, full_text) ==
    IF toks = <<>> THEN full_text
    ELSE IF Head(toks) = SystemError THEN <<SystemError>>
    ELSE GenerateFrom(Tail(toks), Append(full_text, Head(toks)))

Generate(run) == GenerateFrom(GenerateStream(run), <<>>)

\* What ResponseEvaluator.evaluate returns: the judge's JSON object, any of
\* whose fields may be missing. 'scores' is the least of its four metric
\* scores: a Pass with low scores, a Fail with high scores (the fail-closed
\* default has that shape too), and an object without grade or reasoning.
JudgeReturns ==
    { [overall_grade |-> "Pass", reasoning |-> <<"judge reasoning">>, scores |-> 0],
      [overall_grade |-> "Fail", reasoning |-> <<"judge reasoning">>, scores |-> 100],
      [scores |-> 0] }

ScoreValues ==
    {AbortThreshold - 1, AbortThreshold, GroundingThreshold - 1, GroundingThreshold}

\* GeneratorService.calculate_grounding_score: 0.0 when the response or the
\* context list is empty; otherwise the rounded overlap ratio, which the
\* words of the response and of the tool outputs decide.
GroundingScores(response, context_chunks) ==
    IF response = <<>> \/ context_chunks = <<>> THEN {0} ELSE ScoreValues

(***************************************************************************)
(* The token budget (src/app/core/rate_limiter.py:63-117). The lock table  *)
(* maps a locked model to the time from which it is available again.       *)
(***************************************************************************)
\* settings.GROQ_PLANNING_MODEL, settings.GROQ_FAST_MODEL and
\* settings.GROQ_MODEL are kept as three distinct names.
PlanningModel == "GROQ_PLANNING_MODEL"
FastModel == "GROQ_FAST_MODEL"
GeneratorModel == "GROQ_MODEL"
Models == {PlanningModel, FastModel, GeneratorModel}

NoLocks == <<>>

\* the value can_use returns
CanUse(l, model, t) == ~Has(l, model) \/ t > l[model]

\* a can_use that never deletes
AfterCanUseKeeping(l, model, t) == l

\* a can_use that purges every expired lock of the table
AfterCanUsePurging(l, model, t) ==
    [m \in { k \in DOMAIN l : ~(t > l[k]) } |-> l[m]]

\* the lock table can_use leaves: an expired lock is deleted
AfterCanUse(l, model, t) ==
    IF Has(l, model) /\ t > l[model]
    THEN [m \in (DOMAIN l) \ {model} |-> l[m]]
    ELSE l

\* the value get_lock_duration returns
GetLockDuration(l, model, t) ==
    IF ~Has(l, model) THEN 0
    ELSE IF l[model] - t > 0 THEN l[model] - t ELSE 0

\* An error text is a sequence of tokens: pieces of literal text and runs
\* of decimal digits.
Lit(s) == [lit |-> s]
Num(ds) == [digits |-> ds]
IsNum(tok) == Has(tok, "digits")

RECURSIVE DigitsOf(_)
\* the decimal digits of a natural number
DigitsOf(n) == IF n < 10 THEN <<n>> ELSE Append(DigitsOf(n \div 10), n % 10)

RECURSIVE ValueOf(_)
\* float() of a run of digits
ValueOf(ds) ==
    IF ds = <<>> THEN 0 ELSE ValueOf(SubSeq(ds, 1, Len(ds) - 1)) * 10 + ds[Len(ds)]

\* the milliseconds that the digits after a decimal point stand for
FracMillis(ds) ==
    (IF Len(ds) >= 1 THEN ds[1] * 100 ELSE 0)
    + (IF Len(ds) >= 2 THEN ds[2] * 10 ELSE 0)
    + (IF Len(ds) >= 3 THEN ds[3] ELSE 0)

\* A wait hint as the upstream service writes it: minutes and seconds, each
\* of which may be left out; seconds carry a fraction when they are not whole.
FormatHint(h) ==
    (IF Has(h, "minutes") THEN <<Num(DigitsOf(h.minutes)), Lit("m")>> ELSE <<>>)
    \o (IF Has(h, "millis")
        THEN <<Num(DigitsOf(h.millis \div 1000))>>
             \o (IF h.millis % 1000 /= 0
                 THEN <<Lit("."), Num(<<(h.millis % 1000) \div 100,
                                        ((h.millis % 1000) \div 10) % 10,
                                        h.millis % 10>>)>>
                 ELSE <<>>)
             \o <<Lit("s")>>
        ELSE <<>>)

TryAgainIn == Lit("try again in ")

\* index of the first "try again in " of the text, 0 when there is none
PhraseAt(text) ==
    IF \E i \in 1..Len(text) : text[i] = TryAgainIn
    THEN CHOOSE i \in 1..Len(text) :
            text[i] = TryAgainIn /\ \A k \in 1..(i - 1) : text[k] /= TryAgainIn
    ELSE 0

\* what (\d+m)? matches at the head of toks: the minutes and the tokens used
MinutesGroup(toks) ==
    IF Len(toks) >= 2 /\ IsNum(toks[1]) /\ toks[2] = Lit("m")
    THEN [matched |-> TRUE, minutes |-> ValueOf(toks[1].digits), used |-> 2]
    ELSE [matched |-> FALSE, minutes |-> 0, used |-> 0]

\* what (\d+(\.\d+)?s)? matches at the head of toks, in milliseconds
SecondsGroup(toks) ==
    IF Len(toks) >= 2 /\ IsNum(toks[1]) /\ toks[2] = Lit("s")
    THEN [matched |-> TRUE, millis |-> ValueOf(toks[1].digits) * 1000]
    ELSE IF /\ Len(toks) >= 4 /\ IsNum(toks[1]) /\ toks[2] = Lit(".")
            /\ IsNum(toks[3]) /\ toks[4] = Lit("s")
    THEN [matched |-> TRUE,
          millis |-> ValueOf(toks[1].digits) * 1000 + FracMillis(toks[3].digits)]
    ELSE [matched |-> FALSE, millis |-> 0]

\* rate_limiter.py:93  wait_seconds = 60
DefaultWait == 60000
\* rate_limiter.py:108  wait_seconds = total_seconds + 5
Buffer == 5000

\* wait_seconds of report_429, in milliseconds
WaitOf(text) ==
    LET at == PhraseAt(text) IN
    IF at = 0 THEN DefaultWait
    ELSE LET rest == SubSeq(text, at + 1, Len(text))
             mg == MinutesGroup(rest)
             sg == SecondsGroup(SubSeq(rest, mg.used + 1, Len(rest)))
             total_seconds == mg.minutes * 60000 + sg.millis
         IN IF total_seconds > 0 THEN total_seconds + Buffer ELSE DefaultWait

\* a report_429 that records nothing
AfterReportIgnored(l, model, text, t) == l

\* the lock table report_429 leaves
AfterReport(l, model, text, t) ==
    [m \in (DOMAIN l) \cup {model} |-> IF m = model THEN t + WaitOf(text) ELSE l[m]]

\* Hints an error text may carry, and the texts of rate-limit errors: the
\* hint follows the words "try again in", or other words, or there is none.
NoHint == [none |-> TRUE]
Hints ==
    { [minutes |-> 1, millis |-> 30000],
      [minutes |-> 3, millis |-> 34272],
      [minutes |-> 1],
      [millis |-> 45000],
      [minutes |-> 0, millis |-> 0] }

RateLimitCases ==
    { [hint |-> h,
       text |-> <<Lit("429"), Lit("rate limit"), Lit(" reached. please "), TryAgainIn>>
                \o FormatHint(h) \o <<Lit(".")>>,
       anchored |-> TRUE] : h \in Hints }
    \cup
    { [hint |-> [minutes |-> 1, millis |-> 30000],
       text |-> <<Lit("429"), Lit(" retry after ")>>
                \o FormatHint([minutes |-> 1, millis |-> 30000]),
       anchored |-> FALSE],
      [hint |-> NoHint, text |-> <<Lit("rate limit"), Lit(" exceeded")>>,
       anchored |-> FALSE] }

(***************************************************************************)
(* State                                                                   *)
(***************************************************************************)
VARIABLES
    \* one request in the reasoning engine
    mode,               \* "buffered" (process_query) or "stream" (process_query_stream)
    pc,                 \* position of the request in the handler
    attempt,            \* the loop variable
    outcome,            \* how the request ended; "none" while it runs
    events,             \* the latest events yielded (stream)
    earlier,            \* summary of the events yielded before them
    returned,           \* the structure process_query returned (buffered)
    current_critique,
    requires_computation,
    available_tools,    \* tools_list of this attempt
    allowed_tool_names,
    plan,
    results,
    next_destination,
    final_response,
    evaluation,
    grounding_score,
    final_attempt_data,
    aborted,            \* the loop was left by the grounding abort
    calls,              \* invocations of each collaborator since the loop last went
                        \* round (since the request began, on the first attempt)
    plan_calls,         \* invocations of create_plan for this query
    judge,              \* what the judge returned in this attempt
    gate,               \* what the gate retrieval returned in this attempt
    screened,           \* what the screener returned for this query
    history,            \* of the request: whether every plan so far was rejected,
                        \* whether the last plan was a refusal, the last intent,
                        \* what the validation of the last plan decided
    \* the token budget
    locks,              \* TokenBudgetManager._locks
    now,                \* time.time(), in milliseconds
    reported,           \* per model, the time and the text of the last report_429
    reports,            \* number of report_429 calls so far
    answer,             \* what the last token-budget operation returned
    \* the model callers
    model_calls,        \* the model invocations the last handler issued
    created,            \* the tools string and the plan of the create_plan call,
                        \* when the last handler was one
    \* the components called on their own
    invocation,         \* the last call of a component: its arguments and its result
    query_cache,        \* redis_cache's query cache: the chunks stored per query
    cache_service,      \* redis_cache's backend: Redis, with the time each key
                        \* expires at, or the dictionary in memory
    carrier             \* the event loop's thread under concurrent requests: where
                        \* each request is, which are waiting, who holds the thread

engineVars ==
    <<mode, pc, attempt, outcome, events, earlier, returned, current_critique,
      requires_computation, available_tools, allowed_tool_names, plan, results,
      next_destination, final_response, evaluation, grounding_score,
      final_attempt_data, aborted, calls, plan_calls, judge, gate, screened,
      history>>

budgetVars == <<locks, now, reported, reports, answer>>

callerVars == <<model_calls, created>>

componentVars == <<invocation, query_cache, cache_service, carrier>>

vars == <<engineVars, budgetVars, callerVars, componentVars>>

Collaborators ==
    {"screener", "classifier", "retriever", "planner", "tool", "generator",
     "multi_agent", "evaluator"}

NoPlan == [action |-> "none"]
NoData == [empty |-> TRUE]
NotCalled == [called |-> FALSE]
NoCritique == [kind |-> "None"]
NoCalls == [c \in Collaborators |-> 0]
NoAnswer == [op |-> "none"]
NoIntent == [classified |-> FALSE]
NoHistory ==
    [only_rejections |-> TRUE, refused |-> FALSE, intent |-> NoIntent,
     verdict |-> "none", invalid |-> <<>>]
NoInvocation == [op |-> "none"]
NoCache == <<>>
\* CacheService() after a ping that succeeded, and after one that failed
\* (set_at: when each key was last set, which Redis keeps as the key's time
\* to live and the dictionary in memory does not keep)
RedisService == [use_redis |-> TRUE, set_at |-> <<>>]
MemoryService == [use_redis |-> FALSE, set_at |-> <<>>]

\* most requests in flight on one event loop
MaxRequests == 2
Requests == 1..MaxRequests
\* no request has made a call yet and the thread is free
IdleCarrier ==
    [at |-> [r \in Requests |-> 1], waiting |-> [r \in Requests |-> FALSE],
     thread |-> 0]

InitialEvaluation ==
    [overall_grade |-> "Fail", reasoning |-> <<"No valid plan generated.">>]

Event(t, c) == [type |-> t, content |-> c]

Terminal(e) == e.type \in {"complete", "error"}

CountType(es, types) == Cardinality({i \in 1..Len(es) : es[i].type \in types})

\* The stream is kept in two parts: the latest events, and a summary of all
\* the events before them (the type of its first and of its last event, how
\* many terminal, error and evaluation events it holds, whether it holds
\* tokens).
NoEvents ==
    [first |-> "none", last |-> "none", terminal |-> 0, errors |-> 0,
     evaluation |-> 0, tokens |-> FALSE]

Summarise(sum, es) ==
    [first |-> IF sum.first = "none" /\ es /= <<>> THEN es[1].type ELSE sum.first,
     last |-> IF es /= <<>> THEN es[Len(es)].type ELSE sum.last,
     terminal |-> sum.terminal + CountType(es, {"complete", "error"}),
     errors |-> sum.errors + CountType(es, {"error"}),
     evaluation |-> sum.evaluation + CountType(es, {"evaluation"}),
     tokens |-> sum.tokens \/ CountType(es, {"token"}) > 0]

\* yield: events reach a consumer in streaming mode only
Emit(es) == IF mode = "stream" THEN events \o es ELSE events

Called(c) == [calls EXCEPT ![c] = @ + 1]

\* no request has run
EngineInit ==
    /\ attempt = 0
    /\ outcome = "none"
    /\ events = <<>>
    /\ earlier = NoEvents
    /\ returned = NoData
    /\ current_critique = NoCritique
    /\ requires_computation = FALSE
    /\ available_tools = <<>>
    /\ allowed_tool_names = {}
    /\ plan = NoPlan
    /\ results = <<>>
    /\ next_destination = "none"
    /\ final_response = <<>>
    /\ evaluation = InitialEvaluation
    /\ grounding_score = 0
    /\ final_attempt_data = NoData
    /\ aborted = FALSE
    /\ calls = NoCalls
    /\ plan_calls = 0
    /\ judge = NotCalled
    /\ gate = NotCalled
    /\ screened = NotCalled
    /\ history = NoHistory

\* the clock when a request arrives
RequestTime == 65000

\* A request arrives in either mode; the planning model is unlocked, or it
\* carries a lock that expired before the request.
Init ==
    /\ mode \in {"buffered", "stream"}
    /\ pc = "screen"
    /\ EngineInit
    /\ now = RequestTime
    /\ locks \in {NoLocks, [m \in {PlanningModel} |-> RequestTime - 1]}
    /\ reported = <<>>
    /\ reports = 0
    /\ answer = NoAnswer
    /\ model_calls = {}
    /\ created = NoData
    /\ invocation = NoInvocation
    /\ query_cache = NoCache
    /\ cache_service = RedisService
    /\ carrier = IdleCarrier

(***************************************************************************)
(* 1. Security check (reasoning_engine.py:26-37, 198-204)                  *)
(***************************************************************************)
\* the security check when the screener's model call yields `raw`
ScreenOn(raw) ==
    /\ pc = "screen"
    /\ LET sa == InspectQuery(raw)
            blocked == ~sa.is_safe
            \* stress_assessment["reasoning"] raises KeyError when it is missing
            key_error == blocked /\ ~Has(sa, "reasoning")
        IN
        /\ calls' = Called("screener")
        /\ screened' = [called |-> TRUE, is_safe |-> sa.is_safe]
                        @@ Opt(blocked /\ Has(sa, "reasoning"), [reasoning |-> sa.reasoning])
        /\ events' =
            Emit(<<Event("security", [is_safe |-> sa.is_safe])>>
                 \o (IF blocked /\ ~key_error
                     THEN <<Event("error", <<"Security Block: ", sa.reasoning>>)>>
                     ELSE <<>>))
        /\ returned' =
            IF mode = "buffered" /\ blocked /\ ~key_error
            THEN [error |-> "Security Block", reason |-> sa.reasoning,
                  threat |-> sa.threat_detected]
            ELSE returned
        /\ outcome' = IF ~blocked THEN "none" ELSE IF key_error THEN "raised" ELSE "blocked"
        /\ pc' = IF blocked THEN "done" ELSE "classify"
    /\ UNCHANGED <<mode, history, earlier, attempt, current_critique, requires_computation,
                   available_tools, allowed_tool_names, plan, results,
                   next_destination, final_response, evaluation, grounding_score,
                   final_attempt_data, aborted, plan_calls, judge, gate>>
    /\ UNCHANGED <<budgetVars, callerVars>>

Screen ==
    /\ \E raw \in RawAssessments : ScreenOn(raw)
    /\ UNCHANGED componentVars

(***************************************************************************)
(* Top of a loop attempt: budget awareness, intent classification and the  *)
(* construction of the registry (reasoning_engine.py:47-76, 213-249).      *)
(***************************************************************************)
\* tools_list and the names parsed from it, for each pair of classifier flags
Registries ==
    [rc \in BOOLEAN, ree \in BOOLEAN |->
        [tools_list |-> ToolsList(rc, ree),
         allowed_tool_names |-> AllowedToolNames(ToolsList(rc, ree))]]

AttemptStart ==
    /\ pc = "classify"
    /\ \E raw \in RawIntents :
        LET it == ClassifyQuery(raw)
            rc == Get(it, "requires_computation", FALSE)
            ree == Get(it, "requires_external_execution", FALSE)
            registry == Registries[rc, ree]
        IN
        /\ calls' = Called("classifier")
        /\ events' =
            Emit((IF attempt > 0 THEN <<Event("status", "Re-planning attempt")>> ELSE <<>>)
                 \o <<Event("status", "Control Plane: budget")>>)
        /\ requires_computation' = rc
        /\ history' = [history EXCEPT !.intent =
                            [classified |-> TRUE, failed |-> (raw = CallFailed),
                             requires_computation |-> rc,
                             requires_external_execution |-> ree]]
        /\ available_tools' = registry.tools_list
        /\ allowed_tool_names' = registry.allowed_tool_names
        /\ pc' = IF rc THEN "plan" ELSE "gate"
    \* the two can_use calls of the budget-awareness log purge expired locks
    /\ locks' = AfterCanUse(AfterCanUse(locks, PlanningModel, now), FastModel, now)
    /\ judge' = NotCalled
    /\ gate' = NotCalled
    /\ UNCHANGED <<mode, screened, earlier, attempt, outcome, returned, current_critique, plan,
                   results, next_destination, final_response, evaluation,
                   grounding_score, final_attempt_data, aborted, plan_calls>>
    /\ UNCHANGED <<now, reported, reports, answer, callerVars, componentVars>>

(***************************************************************************)
(* Retrieval sufficiency gate (reasoning_engine.py:78-92, 251-276)         *)
(***************************************************************************)
InsufficientText == "The provided documents do not contain relevant information."

\* a gate that lets every non-empty retrieval through
InsufficientWhenEmpty(chunks) == chunks = <<>>

\* not pre_check_chunks, or top_score < 0.75
Insufficient(chunks) == chunks = <<>> \/ TopScore(chunks[1]) < GateThreshold

\* a gate that lets the request go on when its retrieval raises
GateEndsWhenInsufficient(failed, insufficient) == insufficient

\* the gate's three return statements: the request ends when the retrieval
\* raised, came back empty or scored below the threshold
GateEnds(failed, insufficient) == failed \/ insufficient

Gate ==
    /\ pc = "gate"
    /\ \E r \in GateReturns :
        LET failed == (r = CallFailed)
            insufficient == ~failed /\ Insufficient(r.chunks)
        IN
        /\ calls' = Called("retriever")
        /\ gate' = [called |-> TRUE, failed |-> failed,
                     passages |-> IF failed THEN 0 ELSE Len(r.chunks),
                     top_score |-> IF failed \/ r.chunks = <<>> THEN 0
                                   ELSE TopScore(r.chunks[1])]
        /\ events' =
            IF failed THEN Emit(<<Event("error", "Retrieval system unavailable")>>)
            ELSE IF insufficient THEN Emit(<<Event("error", InsufficientText)>>)
            ELSE events
        /\ returned' =
            IF mode /= "buffered" THEN returned
            ELSE IF failed THEN [error |-> "Retrieval system unavailable"]
            ELSE IF insufficient
                 THEN [error |-> "Insufficient Context", response |-> InsufficientText]
            ELSE returned
        /\ outcome' = IF failed THEN "unavailable"
                      ELSE IF insufficient THEN "insufficient" ELSE "none"
        /\ pc' = IF GateEnds(failed, insufficient) THEN "done" ELSE "plan"
    /\ UNCHANGED <<mode, screened, history, earlier, attempt, current_critique, requires_computation,
                   available_tools, allowed_tool_names, plan, results,
                   next_destination, final_response, evaluation, grounding_score,
                   final_attempt_data, aborted, plan_calls, judge>>
    /\ UNCHANGED <<budgetVars, callerVars, componentVars>>

(***************************************************************************)
(* Planning and plan validation (reasoning_engine.py:94-131, 278-323)      *)
(***************************************************************************)
\* a validation for which every tool name is registered
AllowedWhateverName(t_name, names) == TRUE

\* a tool name is allowed when the registry's quoted names hold it
Allowed(t_name, names) == <<t_name>> \in names

RECURSIVE InvalidTools(_, _)
\* the invalid_tools list the validation loop collects, in plan order
InvalidTools(steps, names) ==
    IF steps = <<>> THEN <<>>
    ELSE LET step == Head(steps)
             t_name == Get(step, "tool", "None")
         IN (IF ~Allowed(t_name, names) THEN <<t_name>> ELSE <<>>)
            \o (IF Get(step, "input", "None") /= "str"
                THEN <<<<t_name, "(invalid_input_type)">>>> ELSE <<>>)
            \o InvalidTools(Tail(steps), names)

\* isinstance(plan.get("steps"), list)
HasStepsList(p) == Has(p, "steps")

\* a validation that does not look at the tools of the steps
PlanVerdictIgnoringTools(p, names) ==
    LET plan_action == Get(p, "action", "execute") IN
    IF plan_action = "refuse" THEN "refuse"
    ELSE IF plan_action = "registry_violation" THEN "registry_violation"
    ELSE IF ~HasStepsList(p) THEN "invalid_structure"
    ELSE "valid"

\* what the validation of a returned plan decides
PlanVerdict(p, names) ==
    LET plan_action == Get(p, "action", "execute") IN
    IF plan_action = "refuse" THEN "refuse"
    ELSE IF plan_action = "registry_violation" THEN "registry_violation"
    ELSE IF ~HasStepsList(p) THEN "invalid_structure"
    ELSE IF InvalidTools(p.steps, names) /= <<>> THEN "invalid_tools"
    ELSE "valid"

\* a loop over the steps that stops at the first error result
StepsLeftUntilError(p, res) ==
    /\ Len(res) < Len(p.steps)
    /\ IF Len(res) = 0 THEN TRUE ELSE res[Len(res)].output /= "Error: handler failed"

\* for step in plan.get("steps", []): the loop has a step to go on with
StepsLeft(p, res) == Len(res) < Len(Get(p, "steps", <<>>))

\* an engine that takes a refusal for a plan to execute
RefusalIgnored(verdict) == FALSE

\* if plan_action == "refuse": the plan ends the request
Refused(verdict) == verdict = "refuse"

\* the attempt on which a rejected plan ends the request instead of retrying
LastAttempt(a) == a = MAX_RETRIES

Plan ==
    /\ pc = "plan"
    /\ \E p \in PlannerReturns :
        LET verdict == PlanVerdict(p, allowed_tool_names)
            invalid == IF verdict = "invalid_tools"
                       THEN InvalidTools(p.steps, allowed_tool_names) ELSE <<>>
            exhausted == verdict \in {"registry_violation", "invalid_tools"}
                         /\ LastAttempt(attempt)
            retry == verdict \in {"registry_violation", "invalid_structure", "invalid_tools"}
                     /\ ~exhausted
            \* `continue` on the last value of the range leaves the loop
            loop_over == retry /\ attempt = MAX_RETRIES
            goes_round == retry /\ ~loop_over
            yielded ==
                Emit(<<Event("status", "Planning execution strategy...")>> \o
                 (CASE verdict = "refuse" ->
                         <<Event("error", <<"Refusal: ", Get(p, "final_instruction",
                                            "I cannot fulfill this request.")>>)>>
                    [] verdict = "registry_violation" /\ exhausted ->
                         <<Event("error", "Planning Exhausted: Repeated registry violations.")>>
                    [] verdict = "registry_violation" /\ ~exhausted ->
                         <<Event("status", "Plan rejected: Tool Registry Violation")>>
                    [] verdict = "invalid_structure" -> <<>>
                    [] verdict = "invalid_tools" /\ exhausted ->
                         <<Event("error", <<"Planning Exhausted: ", invalid>>)>>
                    [] verdict = "invalid_tools" /\ ~exhausted ->
                         <<Event("status", "Plan rejected: Invalid tools or inputs")>>
                    [] verdict = "valid" -> <<Event("plan", Len(p.steps))>>))
        IN
        /\ plan_calls' = plan_calls + 1
        /\ history' = [only_rejections |-> history.only_rejections /\ (retry \/ exhausted),
                       refused |-> (verdict = "refuse"),
                       intent |-> NoIntent,
                       verdict |-> verdict, invalid |-> invalid]
        \* a rejected plan is never read again: the model forgets it
        /\ plan' = IF verdict = "valid" THEN p ELSE NoPlan
        \* when the loop goes round, the events so far pass into the summary
        /\ events' = IF goes_round THEN <<>> ELSE yielded
        /\ earlier' = IF goes_round THEN Summarise(earlier, yielded) ELSE earlier
        /\ calls' = IF goes_round THEN NoCalls ELSE Called("planner")
        /\ gate' = IF goes_round THEN NotCalled ELSE gate
        /\ returned' =
            IF mode /= "buffered" THEN returned
            ELSE IF Refused(verdict)
                 THEN [error |-> "Refusal",
                       response |-> Get(p, "final_instruction", "I cannot fulfill this request.")]
            ELSE IF exhausted /\ verdict = "registry_violation"
                 THEN [error |-> "Planning Exhausted",
                       response |-> "Repeated registry violations. Check tool configuration."]
            ELSE IF exhausted
                 THEN [error |-> "Planning Exhausted", response |-> invalid]
            ELSE returned
        /\ outcome' = IF Refused(verdict) THEN "refused"
                      ELSE IF exhausted THEN "exhausted" ELSE "none"
        /\ current_critique' =
            IF ~retry THEN current_critique
            ELSE IF verdict = "registry_violation" THEN [kind |-> "registry_violation"]
            ELSE IF verdict = "invalid_structure" THEN [kind |-> "invalid_structure"]
            ELSE [kind |-> "invalid_tools", invalid |-> invalid]
        /\ attempt' = IF goes_round THEN attempt + 1 ELSE attempt
        /\ results' = IF verdict = "valid" THEN <<>> ELSE results
        /\ pc' = IF Refused(verdict) \/ exhausted THEN "done"
                 ELSE IF loop_over THEN "finish"
                 ELSE IF retry THEN "classify"
                 ELSE IF StepsLeft(p, <<>>) THEN "exec"
                 ELSE "route"
    /\ UNCHANGED <<mode, screened, requires_computation, available_tools, allowed_tool_names,
                   next_destination, final_response, evaluation, grounding_score,
                   final_attempt_data, aborted, judge>>
    /\ UNCHANGED <<budgetVars, callerVars, componentVars>>

(***************************************************************************)
(* Execution of the plan's steps, one call of the tool executor per step   *)
(* (reasoning_engine.py:133-137, 325-331)                                  *)
(***************************************************************************)
ExecStep ==
    /\ pc = "exec"
    /\ StepsLeft(plan, results)
    /\ LET step == plan.steps[Len(results) + 1]
           \* step['reason'] in the status event raises KeyError when it is missing
           key_error == mode = "stream" /\ ~Has(step, "reason")
       IN
       IF key_error
       THEN /\ pc' = "done"
            /\ outcome' = "raised"
            /\ UNCHANGED <<events, results, calls>>
       ELSE \E run \in HandlerRuns :
            LET res == ExecuteStep(step, run) IN
            /\ calls' = Called("tool")
            /\ results' = Append(results, res)
            /\ events' = Emit(<<Event("status", "Executing"), Event("step_result", res.tool)>>)
            /\ pc' = IF StepsLeft(plan, Append(results, res)) THEN "exec" ELSE "route"
            /\ outcome' = outcome
    /\ UNCHANGED <<mode, screened, history, earlier, attempt, returned, current_critique, requires_computation,
                   available_tools, allowed_tool_names, plan, next_destination,
                   final_response, evaluation, grounding_score, final_attempt_data,
                   aborted, plan_calls, judge, gate>>
    /\ UNCHANGED <<budgetVars, callerVars, componentVars>>

(***************************************************************************)
(* Routing (reasoning_engine.py:139-140, 333-335)                          *)
(***************************************************************************)
RouteStep ==
    /\ pc = "route"
    /\ next_destination' = Route(plan, results)
    /\ events' = Emit(<<Event("status", "Routing")>>)
    /\ pc' = "generate"
    /\ UNCHANGED <<mode, screened, history, earlier, attempt, outcome, returned, current_critique,
                   requires_computation, available_tools, allowed_tool_names, plan,
                   results, final_response, evaluation, grounding_score,
                   final_attempt_data, aborted, calls, plan_calls, judge, gate>>
    /\ UNCHANGED <<budgetVars, callerVars, componentVars>>

(***************************************************************************)
(* Synthesis (reasoning_engine.py:142-147, 337-348)                        *)
(***************************************************************************)
MultiAgentText == <<"Multi-Agent System handled this query.">>

TokenEvents(toks) == [i \in 1..Len(toks) |-> Event("token", toks[i])]

\* the collaborator that mode m invokes to synthesise the answer
SynthesisCollaborator(m, destination) ==
    IF destination /= "multi_agent_system" THEN "generator"
    ELSE IF m = "buffered" THEN "none"
    ELSE "multi_agent"

Synthesize ==
    /\ pc = "generate"
    /\ \E run \in TokenRuns :
        IF SynthesisCollaborator(mode, next_destination) /= "generator"
        THEN IF SynthesisCollaborator(mode, next_destination) = "none"
             THEN \* the buffered mode calls nothing and answers with a fixed text
                  /\ run = [tokens |-> <<>>, fails |-> FALSE]
                  /\ final_response' = MultiAgentText
                  /\ pc' = "evaluate"
                  /\ UNCHANGED <<calls, events, outcome>>
             ELSE \* MultiAgentSystem.execute_task_stream catches nothing
                  /\ calls' = Called("multi_agent")
                  /\ events' = Emit(TokenEvents(run.tokens))
                  /\ final_response' = run.tokens
                  /\ pc' = IF run.fails THEN "done" ELSE "evaluate"
                  /\ outcome' = IF run.fails THEN "raised" ELSE outcome
        ELSE /\ calls' = Called("generator")
             /\ events' = Emit(TokenEvents(GenerateStream(run)))
             /\ final_response' =
                 IF mode = "buffered" THEN Generate(run) ELSE GenerateStream(run)
             /\ pc' = "evaluate"
             /\ outcome' = outcome
    /\ UNCHANGED <<mode, screened, history, earlier, attempt, returned, current_critique, requires_computation,
                   available_tools, allowed_tool_names, plan, results,
                   next_destination, evaluation, grounding_score, final_attempt_data,
                   aborted, plan_calls, judge, gate>>
    /\ UNCHANGED <<budgetVars, callerVars, componentVars>>

(***************************************************************************)
(* Evaluation, grounding enforcement and the loop decision                 *)
(* (reasoning_engine.py:149-183, 350-373)                                  *)
(***************************************************************************)
\* the grounding abort
Catastrophic(g) == g < AbortThreshold
\* an override that acts on catastrophic grounding only
LowGroundingAtAbort(g) == g < AbortThreshold

\* the grounding override
LowGrounding(g) == g < GroundingThreshold

\* the evaluation after the decision layer has rewritten it
Enforced(j, g) ==
    IF Catastrophic(g)
    THEN [overall_grade |-> "Fail",
          reasoning |-> <<"Aborted due to critical grounding failure">>] @@ j
    ELSE IF LowGrounding(g)
    THEN [overall_grade |-> "Fail",
          reasoning |-> j.reasoning \o <<"[System Critique: Low grounding score]">>] @@ j
    ELSE j

\* a loop that only a Pass ends
LeavesLoopOnPass(ev, a) == Get(ev, "overall_grade", "None") = "Pass"

\* evaluation.get("overall_grade") == "Pass" or attempt >= self.MAX_RETRIES
LeavesLoop(ev, a) == Get(ev, "overall_grade", "None") = "Pass" \/ a >= MAX_RETRIES

\* the text used when the evaluation has no reasoning
DefaultCritique(md) ==
    IF md = "buffered" THEN <<"The previous response was insufficient.">>
    ELSE <<"Poor quality detected.">>

\* a critique that never quotes the evaluation
CritiqueWithoutReasoning(ev, md) == DefaultCritique(md)

\* current_critique = evaluation.get("reasoning", <default>)
EvaluationCritique(ev, md) == Get(ev, "reasoning", DefaultCritique(md))

Evaluate ==
    /\ pc = "evaluate"
    /\ \E j \in JudgeReturns, g \in GroundingScores(final_response, results) :
        LET abort == Catastrophic(g)
            \* evaluation["reasoning"] += ... raises KeyError when it is missing
            key_error == ~abort /\ LowGrounding(g) /\ ~Has(j, "reasoning")
            ev == IF key_error THEN [overall_grade |-> "Fail"] @@ j ELSE Enforced(j, g)
            break == ~abort /\ ~key_error /\ LeavesLoop(ev, attempt)
            retry == ~abort /\ ~key_error /\ ~break
        IN
        /\ grounding_score' = g
        /\ evaluation' = ev
        /\ aborted' = abort
        /\ final_attempt_data' =
            IF mode = "buffered" /\ ~abort /\ ~key_error
            THEN [data_of_attempt |-> attempt, evaluation |-> ev,
                  attempts |-> attempt + 1]
            ELSE final_attempt_data
        /\ current_critique' =
            IF retry
            THEN [kind |-> "evaluation", text |-> EvaluationCritique(ev, mode)]
            ELSE current_critique
        /\ attempt' = IF retry THEN attempt + 1 ELSE attempt
        /\ outcome' = IF key_error THEN "raised" ELSE outcome
        /\ pc' = IF key_error THEN "done" ELSE IF retry THEN "classify" ELSE "finish"
        \* what the collaborators of this attempt did is kept until the loop
        \* goes round
        /\ calls' = IF retry THEN NoCalls ELSE Called("evaluator")
        /\ judge' = IF retry THEN NotCalled ELSE j
        /\ gate' = IF retry THEN NotCalled ELSE gate
    \* the events so far pass into the summary
    /\ earlier' = Summarise(earlier, events)
    /\ events' = <<>>
    \* the locals of the attempt are not read after its evaluation (but for
    \* their copy in final_attempt_data): the model forgets them
    /\ plan' = NoPlan
    /\ results' = <<>>
    /\ next_destination' = "none"
    /\ final_response' = <<>>
    /\ UNCHANGED <<mode, screened, history, returned, requires_computation, available_tools,
                   allowed_tool_names, plan_calls>>
    /\ UNCHANGED <<budgetVars, callerVars, componentVars>>

(***************************************************************************)
(* After the loop: metrics and the final structure or events               *)
(* (reasoning_engine.py:185-192, 375-389)                                  *)
(***************************************************************************)
Finish ==
    /\ pc = "finish"
    /\ LET metrics == [estimated_cost_attempts |-> attempt + 1]
           \* final_attempt_data["evaluation"] raises KeyError on the empty dictionary
           key_error == mode = "buffered" /\ final_attempt_data = NoData
       IN
       /\ returned' =
           IF mode = "buffered" /\ ~key_error
           THEN [final_attempt_data EXCEPT !.evaluation = [metrics |-> metrics] @@ @]
           ELSE returned
       /\ events' =
           Emit(<<Event("evaluation",
                        [evaluation |-> evaluation,
                         metrics |-> [grounding_score |-> grounding_score] @@ metrics]),
                  Event("complete", "")>>)
       /\ outcome' = IF key_error THEN "raised" ELSE "completed"
       /\ pc' = "done"
    /\ UNCHANGED <<mode, screened, history, earlier, attempt, current_critique, requires_computation,
                   available_tools, allowed_tool_names, plan, results,
                   next_destination, final_response, evaluation, grounding_score,
                   final_attempt_data, aborted, calls, plan_calls, judge, gate>>
    /\ UNCHANGED <<budgetVars, callerVars, componentVars>>

(***************************************************************************)
(* The websocket endpoint serving one text query (endpoints.py:185-275)    *)
(***************************************************************************)
\* The endpoint sends an error message for a security event that is not
\* safe and for every error event, forwards status, plan, token and
\* step_result events as messages that are not terminal, ignores every other
\* event, and sends complete when the stream ends.  It then builds the query
\* log from len(chunks), a local name bound only by an earlier query with
\* images on the same connection.  Any exception, of the engine or its own,
\* is answered with one error message, and the connection is closed.
websocket_endpoint(chunks_bound) ==
    LET blocked == ~screened.is_safe
        \* update['assessment']['reasoning'] on the first event
        key_error == blocked /\ ~Has(screened, "reasoning")
        block_messages == IF blocked THEN 1 ELSE 0
        error_messages == earlier.errors + CountType(events, {"error"})
        relayed == block_messages + error_messages
    IN  IF key_error
        THEN [op |-> "websocket_endpoint", terminal |-> 1, last |-> "error",
              open |-> FALSE]
        ELSE IF outcome = "raised"
        THEN [op |-> "websocket_endpoint", terminal |-> relayed + 1,
              last |-> "error", open |-> FALSE]
        ELSE IF ~chunks_bound
        THEN \* complete, then the UnboundLocalError of the log
             [op |-> "websocket_endpoint", terminal |-> relayed + 2,
              last |-> "error", open |-> FALSE]
        ELSE [op |-> "websocket_endpoint", terminal |-> relayed + 1,
              last |-> "complete", open |-> TRUE]

WebsocketEndpoint ==
    /\ mode = "stream"
    /\ pc = "done"
    /\ invocation = NoInvocation
    /\ \E chunks_bound \in BOOLEAN :
        invocation' = websocket_endpoint(chunks_bound) @@ [chunks_bound |-> chunks_bound]
    /\ UNCHANGED <<engineVars, budgetVars, callerVars, query_cache, cache_service, carrier>>

Next ==
    \/ Screen
    \/ AttemptStart
    \/ Gate
    \/ Plan
    \/ ExecStep
    \/ RouteStep
    \/ Synthesize
    \/ Evaluate
    \/ Finish

Spec == Init /\ [][Next]_vars

\* The request up to its gate, with the result of inspect_query on record:
\* whether the screener's model call raised or returned an object without
\* is_safe, and the assessment returned.
ScreenObserved ==
    /\ \E raw \in RawAssessments :
        /\ ScreenOn(raw)
        /\ invocation' = [op |-> "inspect_query",
                          failed |-> (raw = CallFailed \/ ~Has(raw, "is_safe")),
                          assessment |-> InspectQuery(raw)]
    /\ UNCHANGED <<query_cache, cache_service, carrier>>

NextScreening ==
    \/ ScreenObserved
    \/ AttemptStart
    \/ Gate

SpecScreening == Init /\ [][NextScreening]_vars

\* a text query arrives on the websocket: the endpoint drives the stream
InitEndpoint == Init /\ mode = "stream"

NextEndpoint ==
    \/ Screen
    \/ AttemptStart
    \/ Gate
    \/ Plan
    \/ ExecStep
    \/ RouteStep
    \/ Synthesize
    \/ Evaluate
    \/ Finish
    \/ WebsocketEndpoint

SpecEndpoint == InitEndpoint /\ [][NextEndpoint]_vars

(***************************************************************************)
(* The token budget under calls from any component, with a clock           *)
(* (src/app/core/rate_limiter.py:72-117)                                   *)
(***************************************************************************)
\* the clock stops here
MaxTime == 130000
\* most report_429 calls of one behaviour
MaxReports == 2

\* the steps the clock advances by
TickSteps == {65000}

\* the models whose budget is exercised: the two tiers of the planner
BudgetModels == {PlanningModel, FastModel}

EngineIdle ==
    /\ mode = "none"
    /\ pc = "idle"
    /\ EngineInit

InitBudget ==
    /\ EngineIdle
    /\ now = 0
    /\ locks = NoLocks
    /\ reported = <<>>
    /\ reports = 0
    /\ answer = NoAnswer
    /\ model_calls = {}
    /\ created = NoData
    /\ invocation = NoInvocation
    /\ query_cache = NoCache
    /\ cache_service = RedisService
    /\ carrier = IdleCarrier

\* the history kept of a report_429 call
NoteReport(rep, model, case, t) ==
    [m \in (DOMAIN rep) \cup {model} |->
        IF m = model THEN [at |-> t, hint |-> case.hint, anchored |-> case.anchored]
        ELSE rep[m]]

CanUseCall ==
    /\ \E m \in BudgetModels :
        /\ answer' = [op |-> "can_use", model |-> m, at |-> now,
                      value |-> CanUse(locks, m, now)]
        /\ locks' = AfterCanUse(locks, m, now)
    /\ UNCHANGED <<engineVars, now, reported, reports, callerVars, componentVars>>

Report429 ==
    /\ reports < MaxReports
    /\ \E m \in BudgetModels, case \in RateLimitCases :
        /\ locks' = AfterReport(locks, m, case.text, now)
        /\ reported' = NoteReport(reported, m, case, now)
        /\ answer' = [op |-> "report_429", model |-> m, at |-> now]
    /\ reports' = reports + 1
    /\ UNCHANGED <<engineVars, now, callerVars, componentVars>>

GetLockDurationCall ==
    /\ \E m \in BudgetModels :
        answer' = [op |-> "get_lock_duration", model |-> m, at |-> now,
                   value |-> GetLockDuration(locks, m, now)]
    /\ UNCHANGED <<engineVars, locks, now, reported, reports, callerVars, componentVars>>

Tick ==
    /\ \E d \in TickSteps :
        /\ now + d <= MaxTime
        /\ now' = now + d
    /\ UNCHANGED <<engineVars, locks, reported, reports, answer, callerVars, componentVars>>

NextBudget ==
    \/ CanUseCall
    \/ Report429
    \/ GetLockDurationCall
    \/ Tick

SpecBudget == InitBudget /\ [][NextBudget]_vars

(***************************************************************************)
(* Planner.create_plan (src/app/services/planner.py:37-151)                *)
(***************************************************************************)
RECURSIVE LineMatch(_, _)
\* re.search(r'"([^"]+)":\s*(.*)', line) from position i: group 1 of the
\* leftmost match, as a set of at most one name
LineMatch(toks, i) ==
    LET open == NextQuote(toks, i) IN
    IF open = 0 THEN {}
    ELSE LET close == NextQuote(toks, open + 1) IN
         IF close = 0 THEN {}
         ELSE IF close > open + 1 /\ close < Len(toks) /\ toks[close + 1] = ":"
              THEN {SubSeq(toks, open + 1, close - 1)}
              ELSE LineMatch(toks, close)

\* allowed_tool_names of create_plan, from the lines of available_tools_str
PlannerToolNames(lines) == UNION {LineMatch(lines[i], 1) : i \in 1..Len(lines)}

\* models_to_try
ModelsToTry == <<PlanningModel, FastModel>>

PlannerActions == {"execute", "refuse", "registry_violation"}

\* PlanStep(**step) validates
ValidPlanStep(st) ==
    /\ Has(st, "step_id") /\ Has(st, "tool") /\ Has(st, "reason")
    /\ Has(st, "input") /\ st.input = "str"

\* a planner that returns whatever object the model produced
SchemaUnchecked(o) == TRUE

\* ExecutionPlan(**raw_json) validates
SchemaValid(o) ==
    /\ Has(o, "query_analysis") /\ Has(o, "final_instruction")
    /\ Has(o, "action") => o.action \in PlannerActions
    /\ Has(o, "steps") => \A i \in 1..Len(o.steps) : ValidPlanStep(o.steps[i])

\* plan_obj, with the defaults of the fields left out
PlanObj(o) ==
    [query_analysis |-> o.query_analysis,
     action |-> Get(o, "action", "execute"),
     steps |-> Get(o, "steps", <<>>),
     final_instruction |-> o.final_instruction]

\* a planner without the mismatch check
RegistryUnchecked(po, names) == po

\* the final internal mismatch check
RegistryChecked(po, names) ==
    IF \E i \in 1..Len(po.steps) : <<po.steps[i].tool>> \notin names
    THEN [po EXCEPT !.action = "registry_violation", !.steps = <<>>]
    ELSE po

FallbackPlan ==
    [query_analysis |-> "Critical system failure during planning.",
     action |-> "refuse",
     steps |-> <<>>,
     final_instruction |-> "System unavailable. Suggesting retry later."]

\* "429" in error_str or "rate limit" in error_str
IsRateLimit(text) == \E i \in 1..Len(text) : text[i] \in {Lit("429"), Lit("rate limit")}

\* a model invocation: who called which model, whether can_use was asked
\* first, and whether the model was locked when the call was issued
ModelCall(component, model, consulted, l, t) ==
    [component |-> component, model |-> model, consulted |-> consulted,
     locked |-> ~CanUse(l, model, t)]

RECURSIVE TierLoop(_, _, _, _, _, _)
\* The tier loop from the tier at the head of `tiers` on; responses[i] is
\* what tier i's model call yields if it is made. The result holds the plan
\* returned, the lock table and the report history left, and the model calls
\* issued.
TierLoop(tiers, responses, l, rep, t, names) ==
    IF tiers = <<>>
    THEN [plan |-> FallbackPlan, locks |-> l, reported |-> rep, calls |-> {}, reports |-> 0,
          tiers |-> <<>>]
    ELSE
    LET model_tier == Head(tiers)
        r == Head(responses)
        available == CanUse(l, model_tier, t)
        l1 == AfterCanUse(l, model_tier, t)
        call == ModelCall("planner", model_tier, TRUE, l1, t)
        rate_limited == Has(r, "raises") /\ IsRateLimit(r.raises)
        l2 == IF rate_limited THEN AfterReport(l1, model_tier, r.raises, t) ELSE l1
        rep2 == IF rate_limited THEN NoteReport(rep, model_tier, r.case, t) ELSE rep
        \* a schema error or another exception: `continue` on the planning
        \* tier, `break` on the lowest tier
        goes_on == rate_limited \/ model_tier = PlanningModel
        rest == IF goes_on
                THEN TierLoop(Tail(tiers), Tail(responses), l2, rep2, t, names)
                ELSE TierLoop(<<>>, <<>>, l2, rep2, t, names)
        \* how the tier ended, for the record of the tiers considered
        failure == IF rate_limited THEN "rate_limited"
                   ELSE IF Has(r, "json") THEN "invalid"
                   ELSE "failed"
    IN
    IF ~available
    THEN [TierLoop(Tail(tiers), Tail(responses), l, rep, t, names)
            EXCEPT !.tiers = <<[model |-> model_tier, outcome |-> "locked"]>> \o @]
    ELSE IF Has(r, "json") /\ SchemaValid(r.json)
    THEN [plan |-> RegistryChecked(PlanObj(r.json), names), locks |-> l1,
          reported |-> rep, calls |-> {call}, reports |-> 0,
          tiers |-> <<[model |-> model_tier, outcome |-> "valid"]>>]
    ELSE [rest EXCEPT !.calls = {call} \cup @,
                      !.reports = @ + (IF rate_limited THEN 1 ELSE 0),
                      !.tiers = <<[model |-> model_tier, outcome |-> failure]>> \o @]

\* Steps of the JSON objects a model tier returns.
TierStep(tool) == [step_id |-> 1, tool |-> tool, input |-> "str", reason |-> "why"]

\* JSON objects a model tier returns: plans within and outside the registry,
\* with and without the optional fields, and objects the schema rejects.
TierObjects ==
    LET base == [query_analysis |-> "analysis", final_instruction |-> "instruction"] IN
    { base @@ [action |-> "execute", steps |-> <<TierStep("hybrid_retriever")>>],
      base @@ [steps |-> <<TierStep("document_retriever")>>],
      base @@ [action |-> "execute", steps |-> <<TierStep("code_interpreter")>>],
      base @@ [action |-> "execute",
               steps |-> <<TierStep("web_search"), TierStep("document_retriever")>>],
      base @@ [action |-> "refuse", steps |-> <<TierStep("document_retriever")>>],
      base @@ [action |-> "abort", steps |-> <<>>],
      base @@ [action |-> "registry_violation", steps |-> <<TierStep("web_search")>>],
      base @@ [action |-> "execute",
               steps |-> <<[step_id |-> 1, tool |-> "summarizer", input |-> "str"]>>] }

\* the rate-limit errors the callers meet
CallerCases == { c \in RateLimitCases : c.hint = NoHint }

\* What a model call yields: a JSON object, a rate-limit error, another
\* exception (a transport error, or content that is not JSON), or JSON
\* content that is no object, for which ExecutionPlan(**raw_json) raises
\* TypeError.
TierResponses ==
    { [json |-> o] : o \in TierObjects }
    \cup { [raises |-> c.text, case |-> c] : c \in CallerCases }
    \cup { [raises |-> <<Lit("connection error")>>] }
    \cup { [raises |-> <<Lit("argument after ** must be a mapping")>>] }

\* the available_tools_str the engine passes, each with the names that
\* create_plan parses from it
ToolsStrings ==
    { [lines |-> ls, names |-> PlannerToolNames(ls)]
      : ls \in {ToolsList(FALSE, FALSE), ToolsList(TRUE, FALSE)} }

\* the first tier returns a plan: the second tier is not reached
FirstTierReturns(l, t, r1) ==
    CanUse(l, PlanningModel, t) /\ Has(r1, "json") /\ SchemaValid(r1.json)

(***************************************************************************)
(* The components that call a model, sharing the token budget: the         *)
(* planner, the classifier (query_classifier.py:47-75) and the generator   *)
(* (generator.py:129-164).                                                 *)
(***************************************************************************)
CreatePlan ==
    /\ \E tools \in ToolsStrings, r1 \in TierResponses, r2 \in TierResponses :
        \* the response of a tier that is not reached is not drawn
        /\ FirstTierReturns(locks, now, r1) => r2 = r1
        /\ ~CanUse(locks, PlanningModel, now) => r1 = r2
        /\ LET done == TierLoop(ModelsToTry, <<r1, r2>>, locks, reported, now,
                                tools.names)
           IN
           /\ reports + done.reports <= MaxReports
           /\ created' = [tools |-> tools.lines, plan |-> done.plan,
                           tiers |-> done.tiers]
           /\ model_calls' = done.calls
           /\ locks' = done.locks
           /\ reported' = done.reported
           /\ reports' = reports + done.reports
    /\ UNCHANGED <<engineVars, now, answer, componentVars>>

\* classify_query issues its call to the fast model without asking the budget
ClassifyQueryCall ==
    /\ model_calls' = {ModelCall("classifier", FastModel, FALSE, locks, now)}
    /\ created' = NoData
    /\ UNCHANGED <<engineVars, budgetVars, componentVars>>

\* What the generator's completion call yields.
GeneratorResponses ==
    { [tokens |-> <<"tok">>] }
    \cup { [raises |-> c.text, case |-> c] : c \in CallerCases }
    \cup { [raises |-> <<Lit("connection error")>>] }

\* generate_stream asks the budget, and issues its call whatever the answer
GenerateStreamCall ==
    /\ \E r \in GeneratorResponses :
        LET l1 == AfterCanUse(locks, GeneratorModel, now)
            rate_limited == Has(r, "raises") /\ IsRateLimit(r.raises)
        IN
        /\ rate_limited => reports < MaxReports
        /\ model_calls' = {ModelCall("generator", GeneratorModel, TRUE, l1, now)}
        /\ locks' = IF rate_limited THEN AfterReport(l1, GeneratorModel, r.raises, now) ELSE l1
        /\ reported' = IF rate_limited THEN NoteReport(reported, GeneratorModel, r.case, now)
                       ELSE reported
        /\ reports' = IF rate_limited THEN reports + 1 ELSE reports
    /\ created' = NoData
    /\ UNCHANGED <<engineVars, now, answer, componentVars>>

NextCallers ==
    \/ CreatePlan
    \/ ClassifyQueryCall
    \/ GenerateStreamCall
    \/ Tick

SpecCallers == InitBudget /\ [][NextCallers]_vars

(***************************************************************************)
(* The components called on their own: the judge, the tool executor, the   *)
(* router and the retriever, each with the answers of what it calls drawn  *)
(* from a small set.                                                       *)
(***************************************************************************)

(***************************************************************************)
(* ResponseEvaluator.evaluate (evaluator.py:16-73)                         *)
(***************************************************************************)
\* range(3): the judge calls one invocation may issue
JudgeAttempts == 3

\* what one chat completion does: it raises, or its content is empty, is not
\* JSON, is JSON but no object, or is a JSON object
JudgeResponses ==
    { [kind |-> "raises"], [kind |-> "empty"], [kind |-> "not_json"],
      [kind |-> "not_object"] }
    \cup { [kind |-> "object", evaluation |-> j] : j \in JudgeReturns }

\* the exception one judge call ends in inside the try block, if any
JudgeFailure(r) ==
    CASE r.kind = "raises" -> [failed |-> TRUE, e |-> "APIConnectionError"]
      [] r.kind = "empty" -> [failed |-> TRUE, e |-> "Empty response from Judge"]
      [] r.kind = "not_json" -> [failed |-> TRUE, e |-> "JSONDecodeError"]
      \* evaluation.get in the log line, on a value that is no dict
      [] r.kind = "not_object" -> [failed |-> TRUE, e |-> "AttributeError"]
      [] OTHER -> [failed |-> FALSE]

\* the fail-closed answer, scores in hundredths
DefaultEvaluation(e) ==
    [overall_grade |-> "Fail",
     reasoning |-> <<"Judge System Failure: ", e, ". Defaulting to safety.">>,
     scores |-> [faithfulness |-> 0, relevance |-> 0, helpfulness |-> 0,
                 context_adherence |-> 0]]

\* a judge that gives up without an answer
NoFinalJudgeAttempt(a) == FALSE

\* attempt == 2
FinalJudgeAttempt(a) == a = JudgeAttempts - 1

\* the loop from attempt a on, rs[a + 1] being what the judge call of attempt a does
RECURSIVE EvaluateLoop(_, _)
EvaluateLoop(rs, a) ==
    IF a >= JudgeAttempts
    THEN [returned |-> FALSE, judge_calls |-> a]
    ELSE LET f == JudgeFailure(rs[a + 1]) IN
         IF ~f.failed
         THEN [returned |-> TRUE, result |-> rs[a + 1].evaluation, judge_calls |-> a + 1]
         ELSE IF FinalJudgeAttempt(a)
         THEN [returned |-> TRUE, result |-> DefaultEvaluation(f.e), judge_calls |-> a + 1]
         ELSE EvaluateLoop(rs, a + 1)

EvaluateCall ==
    /\ \E rs \in [1..JudgeAttempts -> JudgeResponses] :
        invocation' = [op |-> "evaluate", judge |-> rs] @@ EvaluateLoop(rs, 0)
    /\ UNCHANGED <<engineVars, budgetVars, callerVars, query_cache, cache_service, carrier>>

(***************************************************************************)
(* ToolExecutor.execute_step on any step value (tool_executor.py:10-62)    *)
(***************************************************************************)
\* the inputs a step may carry, by type: a string, a dict that reduces to a
\* string, a dict whose 'query' is a number, a list, a number, None
StepInputs == {"str", "dict", "dict_number", "list", "int", "None"}

StepTools ==
    {"hybrid_retriever", "web_search", "summarizer", "code_interpreter",
     "document_retriever", ""}

\* the step values: dictionaries whose keys may be missing, and values that
\* are no dictionary
StepValues ==
    { [type |-> "dict",
       fields |-> Opt(id, [step_id |-> 1]) @@ Opt(t /= "missing", [tool |-> t])
                  @@ Opt(i /= "missing", [input |-> i])]
      : id \in BOOLEAN, t \in StepTools \cup {"missing"},
        i \in StepInputs \cup {"missing"} }
    \cup { [type |-> "str"], [type |-> "list"], [type |-> "NoneType"] }

\* the type of tool_input after the sanitisation of lines 28-35
Sanitized(input) ==
    CASE input = "dict" -> "str"
      [] input = "dict_number" -> "int"
      [] input = "list" -> "str"
      [] OTHER -> input

\* a result before the handlers run, with the output given
EarlyResult(step, output) ==
    Opt(Has(step, "step_id"), [step_id |-> Get(step, "step_id", 0)]) @@
    Opt(Has(step, "tool"), [tool |-> Get(step, "tool", "")]) @@
    [output |-> output]

execute_step(v, run) ==
    \* step.get on a value that has no get
    IF v.type /= "dict" THEN [raised |-> TRUE, exception |-> "AttributeError"]
    ELSE LET step == v.fields
             tool_input == Get(step, "input", "None")
         IN
         IF Get(step, "tool", "") = "" \/ tool_input = "None"
         THEN [raised |-> FALSE,
               result |-> EarlyResult(step, "Error: Malformed step (missing name or input)")]
         ELSE IF Sanitized(tool_input) /= "str"
         THEN [raised |-> FALSE,
               result |-> EarlyResult(step, "Error: Input type mismatch")]
         ELSE [raised |-> FALSE, result |-> ExecuteStep(step, run)]

ExecuteStepCall ==
    /\ \E v \in StepValues, run \in HandlerRuns :
        invocation' = [op |-> "execute_step", step |-> v, run |-> run]
                        @@ execute_step(v, run)
    /\ UNCHANGED <<engineVars, budgetVars, callerVars, query_cache, cache_service, carrier>>

(***************************************************************************)
(* ConditionalRouter.route on any results (conditional_router.py:9-25)     *)
(***************************************************************************)
\* the results route may be given: the tool may be missing, the output is
\* empty, a text or a list of chunks, or an error text
StepResults ==
    { Opt(t /= "missing", [tool |-> t]) @@ [output |-> o]
      : t \in {"hybrid_retriever", "summarizer", "missing"},
        o \in {"empty", "output", "Error: handler failed"} }

RoutePlans ==
    { [action |-> "execute", steps |-> <<>>, final_instruction |-> "instruction"],
      [action |-> "execute", final_instruction |-> "instruction",
       steps |-> <<[step_id |-> 1, tool |-> "hybrid_retriever", input |-> "str",
                    reason |-> "why"]>>] }

RouteCall ==
    /\ \E p \in RoutePlans, res \in SeqsUpTo(StepResults, MaxSteps) :
        invocation' = [op |-> "route", plan |-> p, results |-> res,
                       result |-> Route(p, res)]
    /\ UNCHANGED <<engineVars, budgetVars, callerVars, query_cache, cache_service, carrier>>

(***************************************************************************)
(* RetrieverService.retrieve with the query cache (retriever.py:16-94,     *)
(* cache.py:41-55)                                                         *)
(***************************************************************************)
MaxTopK == 2
MaxCandidates == 3

Queries == {"what is a pod", "list the nodes"}

\* the candidates the dense and the keyword retrieval found, in the order
\* of their reranker scores
Candidates(n) == [i \in 1..n |-> [id |-> i, rank |-> i]]

\* all_candidates[:top_k]
FirstK(cands, top_k) ==
    SubSeq(cands, 1, IF Len(cands) < top_k THEN Len(cands) ELSE top_k)

\* get_query_cache(query): the key is the hash of the query alone
Cached(cache, query) == query \in DOMAIN cache

\* set_query_cache(query, {'chunks': final_chunks})
SetQueryCache(cache, query, chunks) ==
    [q \in DOMAIN cache \cup {query} |-> IF q = query THEN chunks ELSE cache[q]]

\* retrieve(query, top_k, filters) when the stores hold n candidates for it:
\* the chunks returned and the cache left
Retrieve(cache, query, top_k, n) ==
    IF Cached(cache, query)
    THEN [hit |-> TRUE, result |-> cache[query], cache |-> cache]
    ELSE IF n = 0
    THEN [hit |-> FALSE, result |-> <<>>, cache |-> cache]
    ELSE LET final_chunks == FirstK(Candidates(n), top_k) IN
         [hit |-> FALSE, result |-> final_chunks,
          cache |-> SetQueryCache(cache, query, final_chunks)]

RetrieveCall ==
    /\ \E query \in Queries, top_k \in 1..MaxTopK, filters \in BOOLEAN,
          n \in 0..MaxCandidates :
        LET r == Retrieve(query_cache, query, top_k, n) IN
        /\ invocation' = [op |-> "retrieve", query |-> query, top_k |-> top_k,
                          filters |-> filters, hit |-> r.hit, result |-> r.result]
        /\ query_cache' = r.cache
    /\ UNCHANGED <<engineVars, budgetVars, callerVars, cache_service, carrier>>

\* the 30 minutes of a Redis entry have passed (cache.py:37, 55)
CacheExpires ==
    /\ \E query \in DOMAIN query_cache :
        query_cache' = [q \in DOMAIN query_cache \ {query} |-> query_cache[q]]
    /\ UNCHANGED <<engineVars, budgetVars, callerVars, invocation, cache_service, carrier>>

(***************************************************************************)
(* GeneratorService.generate and generate_stream on the same completion    *)
(* (generator.py:142-184)                                                  *)
(***************************************************************************)
GenerateCall ==
    /\ \E run \in TokenRuns :
        invocation' = [op |-> "generate", run |-> run,
                       streamed |-> GenerateStream(run), text |-> Generate(run)]
    /\ UNCHANGED <<engineVars, budgetVars, callerVars, query_cache, cache_service, carrier>>

NextComponents ==
    \/ EvaluateCall
    \/ ExecuteStepCall
    \/ RouteCall
    \/ GenerateCall

SpecComponents == InitBudget /\ [][NextComponents]_vars

\* the retriever and its cache
NextRetriever ==
    \/ RetrieveCall
    \/ CacheExpires

SpecRetriever == InitBudget /\ [][NextRetriever]_vars

(***************************************************************************)
(* GeneratorService.generate_queries (generator.py:25-67)                  *)
(***************************************************************************)
\* most lines of one reply of the generation service
MaxLines == 5

OriginalQuery == "what is a pod"

\* The lines of a reply: each a text, possibly between blanks; a line of
\* blanks alone has the empty text.
ReplyLines ==
    { [text |-> t, padded |-> FALSE] : t \in {OriginalQuery, "pods explained", ""} }
    \cup { [text |-> "pods explained", padded |-> TRUE] }

\* q.strip()
Strip(line) == line.text

\* the elements of a list
Elements(list) == { list[i] : i \in 1..Len(list) }

NonEmpty(text) == text /= ""

\* queries = [q.strip() for q in content.split('\n') if q.strip()];
\* the query is appended when it is not among them; queries[:4]
ExpandedQueries(query, reply) ==
    LET queries == SelectSeq([i \in 1..Len(reply) |-> Strip(reply[i])], NonEmpty)
        with_query == IF query \notin Elements(queries) THEN Append(queries, query)
                      ELSE queries
    IN FirstK(with_query, 4)

\* What the completion call of generate_queries yields: a reply, a
\* rate-limit error or another exception.
ExpansionResponses ==
    { [reply |-> r] : r \in SeqsUpTo(ReplyLines, MaxLines) }
    \cup { [raises |-> c.text, case |-> c] : c \in CallerCases }
    \cup { [raises |-> <<Lit("connection error")>>] }

GenerateQueriesCall ==
    /\ \E r \in ExpansionResponses :
        LET fast == CanUse(locks, FastModel, now)
            l1 == AfterCanUse(locks, FastModel, now)
            main == CanUse(l1, GeneratorModel, now)
            l2 == IF fast THEN l1 ELSE AfterCanUse(l1, GeneratorModel, now)
            skipped == ~fast /\ ~main
            target_model == IF fast THEN FastModel ELSE GeneratorModel
            rate_limited == ~skipped /\ Has(r, "raises") /\ IsRateLimit(r.raises)
        IN
        \* the response of a call that is not made is not drawn
        /\ skipped => r = [reply |-> <<>>]
        /\ rate_limited => reports < MaxReports
        /\ invocation' =
            [op |-> "generate_queries", query |-> OriginalQuery,
             called |-> IF skipped THEN "none" ELSE target_model,
             queries |-> IF skipped \/ Has(r, "raises") THEN <<OriginalQuery>>
                         ELSE ExpandedQueries(OriginalQuery, r.reply)]
        /\ locks' = IF rate_limited THEN AfterReport(l2, target_model, r.raises, now) ELSE l2
        /\ reported' = IF rate_limited THEN NoteReport(reported, target_model, r.case, now)
                       ELSE reported
        /\ reports' = IF rate_limited THEN reports + 1 ELSE reports
    /\ UNCHANGED <<engineVars, now, answer, callerVars, query_cache, cache_service, carrier>>

NextQueries ==
    \/ GenerateQueriesCall
    \/ Tick

SpecQueries == InitBudget /\ [][NextQueries]_vars

(***************************************************************************)
(* The query cache in time (cache.py:27-55, retriever.py:17-20, 90-92)     *)
(***************************************************************************)
\* cache.py:55  self._set(key, json.dumps(data), 1800), in milliseconds
QueryCacheTTL == 1800000

\* the latest time of a behaviour of the cache
MaxCacheTime == 2700001
\* the steps its clock advances by
CacheTickSteps == {900000, 900001}

\* _get(key) at time t: Redis holds a key set with SETEX until its time has
\* come; the dictionary in memory holds every key ever set
Held(cache, svc, t) ==
    IF svc.use_redis
    THEN [q \in { k \in DOMAIN cache :
                    ~Has(svc.set_at, k) \/ t < svc.set_at[k] + QueryCacheTTL } |-> cache[q]]
    ELSE cache

InitCache ==
    /\ EngineIdle
    /\ now = 0
    /\ locks = NoLocks
    /\ reported = <<>>
    /\ reports = 0
    /\ answer = NoAnswer
    /\ model_calls = {}
    /\ created = NoData
    /\ invocation = NoInvocation
    /\ query_cache = NoCache
    /\ cache_service \in {RedisService, MemoryService}
    /\ carrier = IdleCarrier

\* retrieve(query, top_k, filters) at the time `now`
RetrieveAt ==
    /\ \E query \in Queries, top_k \in 1..MaxTopK, n \in 0..MaxCandidates :
        LET held == Held(query_cache, cache_service, now)
            r == Retrieve(held, query, top_k, n)
            stored == ~r.hit /\ Cached(r.cache, query)
        IN
        /\ invocation' =
            [op |-> "retrieve", query |-> query, top_k |-> top_k, hit |-> r.hit,
             result |-> r.result,
             age |-> IF r.hit THEN now - cache_service.set_at[query] ELSE 0]
        /\ query_cache' = r.cache
        /\ cache_service' =
            IF stored
            THEN [cache_service EXCEPT !.set_at =
                    [q \in DOMAIN r.cache |-> IF q = query THEN now ELSE @[q]]]
            ELSE [cache_service EXCEPT !.set_at = [q \in DOMAIN r.cache |-> @[q]]]
    /\ UNCHANGED <<engineVars, budgetVars, callerVars, carrier>>

CacheTick ==
    /\ \E d \in CacheTickSteps :
        /\ now + d <= MaxCacheTime
        /\ now' = now + d
    /\ UNCHANGED <<engineVars, locks, reported, reports, answer, callerVars, componentVars>>

NextCache ==
    \/ RetrieveAt
    \/ CacheTick

SpecCache == InitCache /\ [][NextCache]_vars

(***************************************************************************)
(* Concurrent requests on one event loop: the external calls of a request  *)
(* and what each does to the thread that carries it                        *)
(* (stress_tester.py:37, query_classifier.py:48, rate_limiter.py:16-26,    *)
(* planner.py:101-111, generator.py:144, evaluator.py:46-55,               *)
(* endpoints.py:195-250)                                                   *)
(***************************************************************************)
\* the waits of one streamed request, in the order it meets them
Waits ==
    <<"screening", "classification", "pacing", "planning", "generation",
      "evaluation", "send">>

\* A wait releases the thread when the coroutine awaits something that
\* yields to the event loop. The model calls go through the synchronous
\* client Groq().chat.completions.create and the pacing delay is time.sleep:
\* none is awaited. await websocket.send_json(...) is.
Suspends(wait) == wait = "send"

\* request r has a wait ahead and is not in one
Ready(r) == ~carrier.waiting[r] /\ carrier.at[r] <= Len(Waits)

\* request r, running on the free thread, enters its next wait
EnterWait(r) ==
    /\ Ready(r)
    /\ carrier.thread = 0
    /\ carrier' = [carrier EXCEPT !.waiting[r] = TRUE,
                                  !.thread = IF Suspends(Waits[carrier.at[r]]) THEN 0 ELSE r]
    /\ UNCHANGED <<engineVars, budgetVars, callerVars, invocation, query_cache,
                   cache_service>>

\* what request r waited for has arrived: r goes on, on the thread it held
\* or on the free thread
LeaveWait(r) ==
    /\ carrier.waiting[r]
    /\ carrier.thread \in {0, r}
    /\ carrier' = [carrier EXCEPT !.waiting[r] = FALSE, !.at[r] = @ + 1, !.thread = 0]
    /\ UNCHANGED <<engineVars, budgetVars, callerVars, invocation, query_cache,
                   cache_service>>

NextCarrier ==
    \/ \E r \in Requests : EnterWait(r)
    \/ \E r \in Requests : LeaveWait(r)

SpecCarrier == InitBudget /\ [][NextCarrier]_vars

(***************************************************************************)
(* Properties of the feedback loop (specification Spec)                    *)
(***************************************************************************)
\* how far the handler has come within one loop attempt
PhaseRank ==
    CASE pc = "screen" -> 0
      [] pc = "classify" -> 1
      [] pc = "gate" -> 2
      [] pc = "plan" -> 3
      [] pc = "exec" -> 4
      [] pc = "route" -> 5
      [] pc = "generate" -> 6
      [] pc = "evaluate" -> 7
      [] pc = "finish" -> 8
      [] pc = "done" -> 9

\* more than the steps one attempt executes
StepWeight == MaxSteps + 3

\* a measure that every step of a request increases and that is bounded:
\* the attempt, then the position in it, then the plan steps executed
LoopProgress == (attempt * 10 + PhaseRank) * StepWeight + Len(results)

\* the ways a request ends
Outcomes ==
    {"blocked", "unavailable", "insufficient", "refused", "exhausted",
     "completed", "raised"}

\* C1: whatever the collaborators do, a request runs at most MAX_RETRIES + 1
\* loop attempts (attempt stays within 0..MAX_RETRIES), create_plan is invoked
\* at most once per attempt and so at most MAX_RETRIES + 1 = 3 times, and the
\* request ends: every step moves it forward by a bounded measure, it can
\* always take a step until it has ended, and it has ended exactly when it
\* has an outcome (a return, a final event, or an exception leaving the
\* handler).
C1_LoopTerminates ==
    /\ [](attempt \in 0..MAX_RETRIES)
    /\ [](plan_calls <= attempt + 1 /\ plan_calls <= MAX_RETRIES + 1)
    /\ [](pc = "done" <=> outcome \in Outcomes)
    /\ [](pc /= "done" => outcome = "none" /\ ENABLED Next)
    /\ [](LoopProgress <= (MAX_RETRIES * 10 + 9) * StepWeight + MaxSteps)
    /\ [][LoopProgress' > LoopProgress]_vars

\* a request that used all three attempts and all three create_plan calls
C1_ThreeAttemptsUsed ==
    /\ pc = "done"
    /\ outcome = "completed"
    /\ attempt = MAX_RETRIES
    /\ plan_calls = MAX_RETRIES + 1

\* number of terminal events of the stream so far
StreamTerminals == earlier.terminal + CountType(events, {"complete", "error"})

\* type of the last event of the stream so far
StreamLast == IF events /= <<>> THEN events[Len(events)].type ELSE earlier.last

\* C2: when process_query_stream has ended, whatever the collaborators
\* returned or raised, its event sequence holds exactly one terminal event
\* (complete or error) and that event is its last.
C2_OneTerminalEventLast ==
    (mode = "stream" /\ pc = "done") =>
        /\ StreamTerminals = 1
        /\ StreamLast \in {"complete", "error"}

\* the retrieval of the gate returned passages, none or the best below 0.75
GateFoundTooLittle ==
    gate.called /\ ~gate.failed
    /\ (gate.passages = 0 \/ gate.top_score < GateThreshold)

\* the retrieval of the gate returned a best passage scored 0.75 or more
GateFoundEnough ==
    gate.called /\ ~gate.failed
    /\ gate.passages > 0 /\ gate.top_score >= GateThreshold

\* C3: on the first loop attempt, when the classifier reports
\* requires_computation = false the gate retrieval runs once; if it returns
\* no passage or a top score below 0.75 the request ends Insufficient Context
\* and create_plan was never invoked; if the top score is at least 0.75 the
\* request goes on to create_plan and that attempt does not end Insufficient
\* Context. When requires_computation = true no gate retrieval is made.
C3_RetrievalGate ==
    /\ (attempt = 0 /\ calls["classifier"] = 1 /\ ~requires_computation /\ pc /= "gate")
        => gate.called /\ calls["retriever"] = 1
    /\ (attempt = 0 /\ GateFoundTooLittle)
        => /\ pc = "done" /\ outcome = "insufficient"
           /\ plan_calls = 0 /\ calls["planner"] = 0
    /\ (attempt = 0 /\ GateFoundEnough)
        => /\ outcome /= "insufficient"
           /\ pc \in {"plan", "exec", "route", "generate", "evaluate", "finish", "done"}
           /\ pc = "plan" => plan_calls = 0 /\ ENABLED Plan
           /\ pc /= "plan" => plan_calls = 1 /\ calls["planner"] = 1
    /\ (calls["classifier"] = 1 /\ requires_computation)
        => ~gate.called /\ calls["retriever"] = 0 /\ pc /= "gate"

\* a first attempt stopped by a passage scored below 0.75
C3_LowScoreStopsRequest ==
    /\ attempt = 0
    /\ gate.called /\ ~gate.failed
    /\ gate.passages = 1 /\ gate.top_score = GateThreshold - 1
    /\ outcome = "insufficient"
    /\ plan_calls = 0

\* C8: when the screener returns is_safe = false the request ends at once in
\* the blocked outcome, no collaborator after the screener is invoked, and in
\* streaming mode the events are exactly a security event followed by an
\* error event that carries the screener's reasoning.
C8_UnsafeQueryBlocked ==
    (screened.called /\ ~screened.is_safe) =>
        /\ pc = "done" /\ outcome = "blocked"
        /\ plan_calls = 0
        /\ \A c \in Collaborators \ {"screener"} : calls[c] = 0
        /\ mode = "stream" =>
            /\ earlier = NoEvents /\ Len(events) = 2
            /\ events[1].type = "security"
            /\ events[2].type = "error"
            /\ Has(screened, "reasoning")
            /\ events[2].content = <<"Security Block: ", screened.reasoning>>

\* The evaluation a completed request reports: the one in the structure
\* process_query returns, or the one of the stream's evaluation event.
ReportedEvaluation ==
    IF mode = "buffered" THEN returned.evaluation
    ELSE events[Len(events) - 1].content.evaluation

\* C9: once an attempt's grounding score is below 0.3 the request ends in
\* the aborted outcome without another create_plan, tool, generator or
\* evaluator invocation (nothing but the final report follows the abort),
\* and the evaluation it reports has overall_grade = Fail.
C9_AbortReportsFail ==
    aborted =>
        /\ pc \in {"finish", "done"}
        /\ pc = "done" =>
            /\ outcome = "completed"
            /\ Get(ReportedEvaluation, "overall_grade", "None") = "Fail"

\* the grade the judge returned on the final attempt, "None" without one
JudgedGrade == Get(judge, "overall_grade", "None")

\* C10: the evaluation a completed request reports has overall_grade = Pass
\* exactly when the judge returned Pass on the final attempt and the
\* grounding score is at least 0.6; a grounding score below 0.6 makes the
\* attempt's grade Fail whatever the judge returned; with a grounding score
\* of 0.6 or more the grade is the judge's own, whatever its metric scores.
C10_FinalGrade ==
    /\ (pc = "done" /\ outcome = "completed")
        => (Get(ReportedEvaluation, "overall_grade", "None") = "Pass"
            <=> (JudgedGrade = "Pass" /\ grounding_score >= GroundingThreshold))
    /\ (pc \in {"finish", "done"} /\ judge /= NotCalled
        /\ grounding_score < GroundingThreshold)
        => evaluation.overall_grade = "Fail"
    /\ (pc = "done" /\ outcome = "completed" /\ judge /= NotCalled
        /\ grounding_score >= GroundingThreshold)
        => /\ Get(ReportedEvaluation, "overall_grade", "None") = JudgedGrade
           /\ Get(evaluation, "overall_grade", "None") = JudgedGrade

\* a completed request whose judge said Pass and whose grade is Fail, the
\* grounding score being between 0.3 and 0.6
C10_PassOverridden ==
    /\ pc = "done" /\ outcome = "completed"
    /\ JudgedGrade = "Pass"
    /\ grounding_score >= AbortThreshold /\ grounding_score < GroundingThreshold
    /\ ReportedEvaluation.overall_grade = "Fail"

(***************************************************************************)
(* Properties of the planner and of the model callers (SpecCallers)        *)
(***************************************************************************)
\* C4: every plan that create_plan returns with action = execute has every
\* step's tool among the names create_plan parsed from the available-tools
\* string of that same call, whatever JSON objects the model tiers returned.
C4_ExecutePlanWithinRegistry ==
    (created /= NoData /\ created.plan.action = "execute") =>
        \A i \in 1..Len(created.plan.steps) :
            <<created.plan.steps[i].tool>> \in PlannerToolNames(created.tools)

\* create_plan returned an execute plan that uses the code interpreter
C4_ExecutePlanReturned ==
    /\ created /= NoData
    /\ created.plan.action = "execute"
    /\ Len(created.plan.steps) = 1
    /\ created.plan.steps[1].tool = "code_interpreter"

\* C7: no model invocation is issued to a model whose lock is unexpired:
\* the planner tiers, the classifier and the generator ask can_use(model)
\* first and do not call the model when it returns false, so that no call
\* they issue finds its model locked.
C7_NoCallToLockedModel ==
    \A c \in model_calls : ~c.locked

(***************************************************************************)
(* Properties of the token budget (SpecBudget)                             *)
(***************************************************************************)
\* the hint 1m30s
WaitHint1m30s == [minutes |-> 1, millis |-> 30000]

\* the last report_429 for m carried "try again in 1m30s"
Reported1m30s(m) ==
    Has(reported, m) /\ reported[m].hint = WaitHint1m30s /\ reported[m].anchored

\* the last token-budget call was `op` for m, made at the current time
AnswerNow(op, m) == answer.op = op /\ answer.model = m /\ answer.at = now

\* can_use(m) is true while nothing was reported for m
UsableUnreported(m) ==
    ~Has(reported, m) =>
        /\ CanUse(locks, m, now)
        /\ AnswerNow("can_use", m) => answer.value

\* before the unlock time can_use(m) is false
LockedBeforeUnlock(m, unlock) ==
    now < unlock =>
        /\ Has(locks, m) /\ locks[m] = unlock
        /\ AnswerNow("can_use", m) => ~answer.value

\* after the unlock time can_use(m) is true and has removed m's entry
UnlockedAfterwards(m, unlock) ==
    now > unlock =>
        /\ CanUse(locks, m, now)
        /\ AnswerNow("can_use", m) => answer.value /\ ~Has(locks, m)

\* C5 as the specification states it: can_use(m) is true while nothing was
\* reported for m; after a report_429 with the hint 1m30s, at every time
\* before the unlock time, can_use(m) is false and get_lock_duration(m) is
\* 95 s within 1 s; after the unlock time can_use(m) is true and removes
\* m's entry.
C5_DurationStays95s ==
    \A m \in BudgetModels :
        /\ UsableUnreported(m)
        /\ Reported1m30s(m) =>
            LET unlock == reported[m].at + 95000 IN
            /\ LockedBeforeUnlock(m, unlock)
            /\ (now < unlock /\ AnswerNow("get_lock_duration", m))
                => answer.value \in 94000..96000
            /\ UnlockedAfterwards(m, unlock)

\* C5, amended: can_use(m) is true while nothing was reported for m; after
\* report_429(m, text) at time t with text "... try again in 1m30s" the
\* unlock time is t + 95 s, and at every time before it can_use(m) is false
\* and get_lock_duration(m) is the time left until it (95 s when asked at
\* t); after the unlock time can_use(m) is true and removes m's entry, and
\* get_lock_duration(m) is 0.
C5_LockCountsDown ==
    \A m \in BudgetModels :
        /\ UsableUnreported(m)
        /\ Reported1m30s(m) =>
            LET unlock == reported[m].at + 95000 IN
            /\ LockedBeforeUnlock(m, unlock)
            /\ (now < unlock /\ AnswerNow("get_lock_duration", m))
                => answer.value = unlock - now
            /\ (now = reported[m].at /\ AnswerNow("get_lock_duration", m))
                => answer.value = 95000
            /\ UnlockedAfterwards(m, unlock)
            /\ (now > unlock /\ AnswerNow("get_lock_duration", m))
                => answer.value = 0

\* 65 s after a report with the hint 1m30s, get_lock_duration returns 30 s
C5_ThirtySecondsLeft ==
    \E m \in BudgetModels :
        /\ Reported1m30s(m)
        /\ reported[m].at = 0
        /\ now = 65000
        /\ AnswerNow("get_lock_duration", m)
        /\ answer.value = 30000

\* the wait the specification reads from an error text: minutes * 60 +
\* seconds of its hint, 60 s without one
HintWait(h) ==
    IF h = NoHint THEN DefaultWait
    ELSE Get(h, "minutes", 0) * 60000 + Get(h, "millis", 0)

\* C6: for every error text report_429 stores unlock time = now + wait + 5 s,
\* where wait is minutes * 60 + seconds of the hint in the text and 60 s when
\* no hint can be parsed; the 5 s are added in both cases.
C6_UnlockIsNowPlusWaitPlusBuffer ==
    \A m \in DOMAIN reported :
        Has(locks, m) =>
            locks[m] = reported[m].at + HintWait(reported[m].hint) + Buffer

(***************************************************************************)
(* C11: the judge is called at most three times and never raises           *)
(***************************************************************************)
\* the judge calls of the last evaluate invocation that produced an evaluation
JudgeSucceeded == {i \in 1..JudgeAttempts : invocation.judge[i].kind = "object"}

FirstJudgeSuccess == CHOOSE i \in JudgeSucceeded : \A k \in JudgeSucceeded : i <= k

\* C11: ResponseEvaluator.evaluate issues at most three judge calls, always
\* returns a value, returns the evaluation of the first judge call that
\* succeeds and stops there, and after three failed judge calls returns the
\* default with overall_grade Fail, the four scores 0.0 and a reasoning that
\* names the failure of the last call.
C11_EvaluateFailsClosed ==
    invocation.op = "evaluate" =>
        /\ invocation.judge_calls <= 3
        /\ invocation.returned
        /\ JudgeSucceeded /= {} =>
            /\ invocation.result = invocation.judge[FirstJudgeSuccess].evaluation
            /\ invocation.judge_calls = FirstJudgeSuccess
        /\ JudgeSucceeded = {} =>
            /\ invocation.judge_calls = 3
            /\ invocation.result.overall_grade = "Fail"
            /\ invocation.result.scores =
                [faithfulness |-> 0, relevance |-> 0, helpfulness |-> 0,
                 context_adherence |-> 0]
            /\ invocation.result.reasoning[1] = "Judge System Failure: "
            /\ invocation.result.reasoning[2] = JudgeFailure(invocation.judge[3]).e

\* three judge calls failed in three different ways
C11_ThreeJudgeFailures ==
    /\ invocation.op = "evaluate"
    /\ invocation.judge[1].kind = "raises"
    /\ invocation.judge[2].kind = "empty"
    /\ invocation.judge[3].kind = "not_object"
    /\ invocation.returned

(***************************************************************************)
(* C12: execute_step always returns a result                               *)
(***************************************************************************)
ErrorOutputs ==
    {"Error: Step is not a dict", "Error: Malformed step (missing name or input)",
     "Error: Input type mismatch", "Error: Unknown tool", "Error: handler failed"}

\* the last execute_step call was given a step that cannot be executed, or
\* its handler raised
StepFailureCase ==
    LET v == invocation.step IN
    \/ v.type /= "dict"
    \/ Get(v.fields, "tool", "") \notin
            {"hybrid_retriever", "web_search", "summarizer", "code_interpreter"}
    \/ Sanitized(Get(v.fields, "input", "None")) /= "str"
    \/ /\ v.fields.tool \in {"hybrid_retriever", "web_search"}
       /\ invocation.run = "raises"

\* C12: execute_step never raises and returns a result with the step's
\* step_id and tool for every step value (no mapping, missing tool or input,
\* unknown tool, irreducible input, raising handler), the output being an
\* error string in each of these failure cases.
C12_ExecuteStepNeverRaises ==
    invocation.op = "execute_step" =>
        /\ ~invocation.raised
        /\ LET step == invocation.step.fields
               res == invocation.result
           IN
           /\ Has(res, "step_id") = Has(step, "step_id")
           /\ Has(res, "step_id") => res.step_id = step.step_id
           /\ Has(res, "tool") = Has(step, "tool")
           /\ Has(res, "tool") => res.tool = step.tool
           /\ StepFailureCase => res.output \in ErrorOutputs

(***************************************************************************)
(* C13: one result per plan step, in plan order                            *)
(***************************************************************************)
\* the plan of this attempt passed validation and its steps are PlanSteps
ValidatedPlan ==
    /\ pc \in {"exec", "route", "generate", "evaluate"}
    /\ plan /= NoPlan
    /\ \A i \in 1..Len(plan.steps) :
        /\ Has(plan.steps[i], "step_id")
        /\ Has(plan.steps[i], "reason")

\* one more step was executed: the next one of the plan
NextStepExecuted ==
    /\ calls'["tool"] = calls["tool"] + 1
    /\ Len(results') = Len(results) + 1
    /\ SubSeq(results', 1, Len(results)) = results
    /\ results'[Len(results')].step_id = plan.steps[Len(results')].step_id

\* C13: for every validated plan with n steps the engine invokes
\* execute_step n times, one step at a time and in plan order, and collects
\* n results, the i-th with the step_id and tool of the i-th step; an error
\* result is followed by the execution of the remaining steps.
C13_OneResultPerStep ==
    /\ [](ValidatedPlan =>
            /\ calls["tool"] = Len(results)
            /\ Len(results) <= Len(plan.steps)
            /\ \A i \in 1..Len(results) :
                /\ results[i].step_id = plan.steps[i].step_id
                /\ results[i].tool = plan.steps[i].tool
            /\ (pc = "exec") = (Len(results) < Len(plan.steps))
            /\ pc = "exec" => ENABLED ExecStep)
    /\ [][(ValidatedPlan /\ pc = "exec") => NextStepExecuted]_vars

\* the first step of a two-step plan failed and the second was executed
C13_StepAfterFailedStep ==
    /\ ValidatedPlan
    /\ pc = "route"
    /\ Len(plan.steps) = 2
    /\ Len(results) = 2
    /\ results[1].output = "Error: handler failed"
    /\ results[2].tool = "hybrid_retriever"

(***************************************************************************)
(* C14: the router decides on the results alone                            *)
(***************************************************************************)
\* the results of the last route call that no summarizer produced
NonSummarizerResults ==
    {i \in 1..Len(invocation.results) :
        Get(invocation.results[i], "tool", "None") /= "summarizer"}

\* C14: route(plan, results) returns multi_agent_system exactly when every
\* result whose tool is not "summarizer" has an empty output (also when
\* there is no such result) and generator otherwise; an error text counts
\* as an output and the plan plays no part in the choice.
C14_RouteByResultsAlone ==
    invocation.op = "route" =>
        /\ invocation.result \in {"multi_agent_system", "generator"}
        /\ (invocation.result = "multi_agent_system") =
            (\A i \in NonSummarizerResults : invocation.results[i].output = "empty")
        /\ \A p \in RoutePlans : Route(p, invocation.results) = invocation.result

\* the only result is a retriever's error text, and the generator is chosen
C14_ErrorTextGoesToGenerator ==
    /\ invocation.op = "route"
    /\ Len(invocation.results) = 1
    /\ Get(invocation.results[1], "tool", "None") = "hybrid_retriever"
    /\ invocation.results[1].output = "Error: handler failed"
    /\ invocation.result = "generator"

(***************************************************************************)
(* C15: the two modes and the collaborators they invoke                    *)
(***************************************************************************)
\* C15: the buffered and the streaming mode invoke the same collaborators
\* for the same collaborator behaviour: once the answer of an attempt has
\* been synthesised, the collaborator that either mode invokes for the
\* route taken has been invoked once in this attempt.
C15_ModesInvokeSameCollaborators ==
    pc = "evaluate" =>
        \A m \in {"buffered", "stream"} :
            LET who == SynthesisCollaborator(m, next_destination) IN
            /\ who /= "none"
            /\ calls[who] = 1

(***************************************************************************)
(* C16: the critique after a registry violation                            *)
(***************************************************************************)
\* C16: a plan with a step whose tool is not in the registry, whether the
\* engine's validation finds the tool or the planner has rewritten the plan
\* to action registry_violation, is rejected before any tool runs, and the
\* critique handed to the next create_plan call names the invalid tool.
C16_CritiqueNamesInvalidTool ==
    current_critique.kind \in {"registry_violation", "invalid_tools"} =>
        /\ Has(current_critique, "invalid")
        /\ Get(current_critique, "invalid", <<>>) /= <<>>
        /\ pc \in {"classify", "gate", "plan"} => calls["tool"] = 0

(***************************************************************************)
(* C17: a request whose every plan was rejected                            *)
(***************************************************************************)
\* every one of the MAX_RETRIES + 1 attempts ended with its plan rejected
EveryPlanRejected ==
    /\ plan_calls = MAX_RETRIES + 1
    /\ history.only_rejections

\* C17: when plan validation fails on each of the MAX_RETRIES + 1 attempts
\* (no list of steps, action registry_violation, an unregistered tool or a
\* non-string input), the request ends in the exhausted outcome: the
\* buffered mode returns the error 'Planning Exhausted', the stream ends
\* with an error event, and no tool was executed.
C17_RejectedPlansExhaust ==
    (pc = "done" /\ EveryPlanRejected) =>
        /\ outcome = "exhausted"
        /\ mode = "buffered" => Get(returned, "error", "none") = "Planning Exhausted"
        /\ mode = "stream" => StreamLast = "error"
        /\ calls["tool"] = 0

(***************************************************************************)
(* C18: a refusal ends the request                                         *)
(***************************************************************************)
\* the response the user sees after a refusal
RefusalShown ==
    IF mode = "buffered" THEN returned.response
    ELSE events[Len(events)].content[2]

\* C18: when create_plan returns a plan with action refuse the request ends
\* at once in the refused outcome, whatever attempts remain: no tool, no
\* generator, no multi-agent system and no evaluator is invoked in that
\* attempt, create_plan is not invoked again, and the plan's
\* final_instruction is the response shown to the user.
C18_RefusalEndsRequest ==
    history.refused =>
        /\ pc = "done"
        /\ outcome = "refused"
        /\ calls["tool"] = 0
        /\ calls["generator"] = 0
        /\ calls["multi_agent"] = 0
        /\ calls["evaluator"] = 0
        /\ calls["planner"] = 1
        /\ RefusalShown = "instruction"
        /\ mode = "buffered" => returned.error = "Refusal"
        /\ mode = "stream" => StreamLast = "error"
        /\ ~ENABLED Next

\* the planner refused on the first attempt, with two attempts left
C18_RefusedOnFirstAttempt ==
    /\ history.refused
    /\ attempt = 0
    /\ plan_calls = 1
    /\ outcome = "refused"

(***************************************************************************)
(* C19: the registry of an attempt                                         *)
(***************************************************************************)
\* the registry of this attempt has a line for the tool
RegistryHolds(name) ==
    \E i \in 1..Len(available_tools) : available_tools[i][3] = name

\* the classifier has answered in this attempt and the planner has not yet
RegistryBuilt == pc \in {"gate", "plan"} /\ history.intent.classified

\* C19 as stated: the registry holds code_interpreter only when the
\* classifier says that computation is required.
C19_CodeInterpreterOnlyForComputation ==
    RegistryBuilt =>
        (RegistryHolds("code_interpreter") => history.intent.requires_computation)

\* C19: in every attempt the registry passed to the planner holds
\* hybrid_retriever, web_search and summarizer, and holds code_interpreter
\* exactly when the classifier's result says that computation or external
\* execution is required; when classification fails both flags are false
\* and code_interpreter is absent.
C19_CodeInterpreterGated ==
    RegistryBuilt =>
        /\ RegistryHolds("hybrid_retriever")
        /\ RegistryHolds("web_search")
        /\ RegistryHolds("summarizer")
        /\ RegistryHolds("code_interpreter") =
            (history.intent.requires_computation
                \/ history.intent.requires_external_execution)
        /\ history.intent.failed =>
            /\ ~history.intent.requires_computation
            /\ ~history.intent.requires_external_execution
            /\ ~RegistryHolds("code_interpreter")
        /\ allowed_tool_names =
            {<<available_tools[i][3]>> : i \in 1..Len(available_tools)}

\* the planner is about to get a registry with code_interpreter for a query
\* that needs external execution and no computation
C19_ExternalExecutionOnly ==
    /\ RegistryBuilt
    /\ pc = "plan"
    /\ ~history.intent.requires_computation
    /\ history.intent.requires_external_execution
    /\ RegistryHolds("code_interpreter")

(***************************************************************************)
(* C20: the length of a retrieval result                                   *)
(***************************************************************************)
\* C20: after any sequence of retrieve calls that share the query cache,
\* with any queries, top_k values and filters, a call
\* retrieve(query, top_k, filters) returns at most top_k passages.
C20_AtMostTopK ==
    invocation.op = "retrieve" => Len(invocation.result) <= invocation.top_k

(***************************************************************************)
(* C21: create_plan always returns a plan                                  *)
(***************************************************************************)
\* no tier that create_plan considered gave a plan that validates
NoTierGavePlan ==
    \A i \in 1..Len(created.tiers) : created.tiers[i].outcome /= "valid"

\* C21: create_plan never raises and always returns a plan, an object with
\* the four fields of ExecutionPlan and one of its three actions; when
\* every tier is locked, rate-limited, fails or returns output that does
\* not validate, the plan is the fallback: action refuse, no steps and an
\* explanatory final_instruction.
C21_CreatePlanAlwaysReturnsPlan ==
    created /= NoData =>
        /\ DOMAIN created.plan =
            {"query_analysis", "action", "steps", "final_instruction"}
        /\ created.plan.action \in PlannerActions
        /\ NoTierGavePlan =>
            /\ created.plan.action = "refuse"
            /\ created.plan.steps = <<>>
            /\ created.plan.final_instruction =
                "System unavailable. Suggesting retry later."

\* the planning tier was rate-limited and the fast tier's output did not
\* validate
C21_BothTiersFailed ==
    /\ created /= NoData
    /\ Len(created.tiers) = 2
    /\ created.tiers[1].outcome = "rate_limited"
    /\ created.tiers[2].outcome = "invalid"
    /\ created.plan.action = "refuse"

(***************************************************************************)
(* C22: the two modes of the generator                                     *)
(***************************************************************************)
\* C22: for the same query, context and model behaviour the text that
\* generate() returns is the concatenation of the tokens that
\* generate_stream() yields, also when the upstream call fails after some
\* tokens were produced.
C22_GenerateEqualsStream ==
    invocation.op = "generate" => invocation.text = invocation.streamed

(***************************************************************************)
(* C23: the structure process_query returns                                *)
(***************************************************************************)
\* C23: process_query never raises and always returns one final structure,
\* an error record or a record with plan, results, response, evaluation
\* with its metrics and attempts in 1..MAX_RETRIES + 1, on every path out of
\* the feedback loop, an abort on the first attempt and a plan without a
\* list of steps on the last attempt included.  (data_of_attempt stands for
\* the plan, the results and the response of one attempt.)
C23_ProcessQueryAlwaysReturns ==
    (mode = "buffered" /\ pc = "done") =>
        /\ outcome /= "raised"
        /\ returned /= NoData
        /\ \/ Has(returned, "error")
           \/ /\ Has(returned, "data_of_attempt")
              /\ Has(returned, "evaluation")
              /\ Has(returned.evaluation, "metrics")
              /\ returned.attempts \in 1..(MAX_RETRIES + 1)

(***************************************************************************)
(* C24: the messages the websocket client receives for one query           *)
(***************************************************************************)
\* C24: for each text query handled by the websocket endpoint the client
\* receives exactly one terminal message (complete or error), which is the
\* last message of that query, and the connection stays open for the next
\* query.
C24_OneTerminalMessagePerQuery ==
    invocation.op = "websocket_endpoint" =>
        /\ invocation.terminal = 1
        /\ invocation.last \in {"complete", "error"}
        /\ invocation.open

(***************************************************************************)
(* C25: the tiers of create_plan under a shared lock table                 *)
(***************************************************************************)
\* the tiers that create_plan sent a request to
TiersCalled(ts) == { ts[i].model : i \in { j \in 1..Len(ts) : ts[j].outcome /= "locked" } }

\* C25: create_plan considers its tiers in the order of models_to_try, each
\* at most once; it sends a request to a tier only if can_use is true for it
\* at that moment, and skips every tier that an earlier request, of any
\* component, has locked until a time still ahead; a rate-limit failure on a
\* tier records a lock on that tier and the next tier is considered.
C25_TiersInOrderRespectingLocks ==
    [][(created' /= NoData /\ now' = now) =>
        LET ts == created'.tiers IN
        /\ Len(ts) <= Len(ModelsToTry)
        /\ \A i \in 1..Len(ts) :
            LET m == ts[i].model IN
            /\ m = ModelsToTry[i]
            /\ ts[i].outcome /= "locked" => CanUse(locks, m, now)
            /\ (Has(locks, m) /\ now < locks[m]) => ts[i].outcome = "locked"
            /\ ts[i].outcome = "rate_limited" =>
                /\ Has(locks', m) /\ locks'[m] > now
                /\ ~CanUse(locks', m, now)
                /\ i < Len(ModelsToTry) => Len(ts) > i
        /\ { c.model : c \in model_calls' } = TiersCalled(ts)
        /\ \A c \in model_calls' : ~c.locked
    ]_vars

\* a create_plan that skipped the planning tier, locked by an earlier
\* request, and met a rate limit on the fast tier
C25_LockedTierSkipped ==
    /\ created /= NoData
    /\ Len(created.tiers) = 2
    /\ created.tiers[1].outcome = "locked"
    /\ created.tiers[2].outcome = "rate_limited"
    /\ ~CanUse(locks, PlanningModel, now)
    /\ ~CanUse(locks, FastModel, now)

(***************************************************************************)
(* C26: can_use at the unlock time                                         *)
(***************************************************************************)
\* C26: can_use(m) is false exactly when m has a lock entry whose unlock
\* time is strictly later than the current time, that is exactly when
\* get_lock_duration(m) > 0; at the instant the current time equals the
\* unlock time can_use(m) is true and has deleted the entry.
C26_UsableAtUnlockTime ==
    \A m \in BudgetModels :
        AnswerNow("can_use", m) =>
            /\ ~answer.value <=> (Has(locks, m) /\ locks[m] > now)
            /\ ~answer.value <=> GetLockDuration(locks, m, now) > 0
            /\ ~(Has(locks, m) /\ locks[m] = now)

(***************************************************************************)
(* C27: what changes the lock table                                        *)
(***************************************************************************)
\* the two tables agree on every model but m
SameButFor(l1, l2, m) ==
    \A k \in Models \ {m} : Has(l1, k) = Has(l2, k) /\ (Has(l1, k) => l1[k] = l2[k])

\* C27: the lock table changes only in a report_429(m, text), which sets m's
\* entry and no other, and in a can_use(m) that finds m's entry expired,
\* which removes m's entry and no other; get_lock_duration and the passing
\* of time leave the table as it is.
C27_LockTableFrame ==
    [][locks' /= locks =>
        /\ now' = now
        /\ answer'.op \in {"report_429", "can_use"}
        /\ SameButFor(locks, locks', answer'.model)
        /\ answer'.op = "report_429" => Has(locks', answer'.model)
        /\ answer'.op = "can_use" =>
            /\ Has(locks, answer'.model) /\ now > locks[answer'.model]
            /\ ~Has(locks', answer'.model)
    ]_vars

\* can_use(m) has just removed m's expired entry, and the entry of the other
\* model is still in the table
C27_ExpiredEntryRemoved ==
    \E m \in BudgetModels, k \in BudgetModels :
        /\ m /= k
        /\ AnswerNow("can_use", m) /\ answer.value
        /\ Has(reported, m) /\ ~Has(locks, m)
        /\ Has(locks, k)

(***************************************************************************)
(* C28: where the retry edges lead                                         *)
(***************************************************************************)
\* C28: a retry leads back to planning, not to the gate: once create_plan
\* has been invoked for a query, the query does not end with the
\* Insufficient-Context outcome nor with the retrieval-unavailable outcome.
C28_NoGateOutcomeAfterPlanning ==
    plan_calls > 0 => outcome \notin {"insufficient", "unavailable"}

(***************************************************************************)
(* C29: the critique create_plan receives                                  *)
(***************************************************************************)
GroundingNote == "[System Critique: Low grounding score]"

\* the critique that the validation of the preceding attempt's plan left
ValidationCritique(h) ==
    [kind |-> h.verdict] @@ Opt(h.verdict = "invalid_tools", [invalid |-> h.invalid])

\* C29: create_plan is called with critique = current_critique. On the first
\* attempt that is None; on an attempt that follows a failed evaluation it is
\* the reasoning of the preceding attempt's evaluation, the grounding note
\* included when 0.3 <= grounding_score < 0.6; on an attempt that follows a
\* rejected plan it is the critique of that rejection. The critique of an
\* older attempt is never passed again.
C29_CritiqueOfPrecedingAttempt ==
    [][plan_calls' = plan_calls + 1 =>
        /\ attempt = 0 => current_critique = NoCritique
        /\ (attempt > 0 /\ history.verdict = "valid") =>
            /\ current_critique.kind = "evaluation"
            /\ Has(evaluation, "reasoning") =>
                current_critique.text = evaluation.reasoning
            /\ (~Catastrophic(grounding_score) /\ LowGrounding(grounding_score)) =>
                current_critique.text[Len(current_critique.text)] = GroundingNote
        /\ (attempt > 0 /\ history.verdict /= "valid") =>
            current_critique = ValidationCritique(history)
    ]_vars

\* the third create_plan of a query has been called with the reasoning of the
\* second attempt's evaluation, grounding note included, after a first
\* attempt whose plan was rejected
C29_ThirdPlanAfterLowGrounding ==
    /\ attempt = 2 /\ plan_calls = 3
    /\ current_critique.kind = "evaluation"
    /\ Len(current_critique.text) > 1
    /\ current_critique.text[Len(current_critique.text)] = GroundingNote
    /\ current_critique.text = evaluation.reasoning

(***************************************************************************)
(* C30: the order of the events of a stream                                *)
(***************************************************************************)
\* positions of the latest events that have one of the types
EventsOf(types) == { i \in 1..Len(events) : events[i].type \in types }

\* type of the first event of the stream so far
StreamFirst ==
    IF earlier.first /= "none" THEN earlier.first
    ELSE IF events /= <<>> THEN events[1].type ELSE "none"

\* the plan of this attempt passes every check of the engine's validation
PassedValidation ==
    /\ plan /= NoPlan
    /\ Get(plan, "action", "execute") \notin {"refuse", "registry_violation"}
    /\ HasStepsList(plan)
    /\ InvalidTools(plan.steps, allowed_tool_names) = <<>>

\* C30: in every streaming run the first event is the security event; within
\* an attempt the plan event comes before every step_result event and these
\* before every token event, with one step_result for each step of the plan
\* once the steps have been executed; a plan event is emitted only for a plan
\* that passed validation; the evaluation event occurs at most once and only
\* immediately before complete.
C30_EventsOrderedByPhase ==
    /\ StreamFirst \in {"none", "security"}
    /\ Cardinality(EventsOf({"plan"})) <= 1
    /\ \A i \in EventsOf({"step_result"}) : \A j \in EventsOf({"plan"}) : j < i
    /\ \A i \in EventsOf({"token"}) : \A j \in EventsOf({"plan", "step_result"}) : j < i
    /\ EventsOf({"step_result", "token"}) /= {} => EventsOf({"plan"}) /= {}
    /\ EventsOf({"plan"}) /= {} => PassedValidation
    /\ (mode = "stream" /\ ValidatedPlan) =>
        /\ EventsOf({"plan"}) /= {}
        /\ Cardinality(EventsOf({"step_result"})) = Len(results)
        /\ pc /= "exec" => Cardinality(EventsOf({"step_result"})) = Len(plan.steps)
    /\ earlier.evaluation = 0
    /\ \A i \in EventsOf({"evaluation"}) :
        i = Len(events) - 1 /\ events[i + 1].type = "complete"

\* the second attempt of a stream has emitted its plan, the results of its
\* two steps and tokens
C30_SecondAttemptStreamed ==
    /\ mode = "stream" /\ pc = "evaluate" /\ attempt = 1
    /\ earlier.first = "security"
    /\ Cardinality(EventsOf({"plan"})) = 1
    /\ Cardinality(EventsOf({"step_result"})) = 2
    /\ EventsOf({"token"}) /= {}

(***************************************************************************)
(* C31: the list generate_queries returns                                  *)
(***************************************************************************)
\* C31: for every reply of the generation service generate_queries returns
\* at most 4 query strings, pairwise distinct, the original query among
\* them.
C31_DistinctQueriesWithOriginal ==
    invocation.op = "generate_queries" =>
        LET queries == invocation.queries IN
        /\ Len(queries) <= 4
        /\ \A i, j \in 1..Len(queries) : i /= j => queries[i] /= queries[j]
        /\ invocation.query \in Elements(queries)

(***************************************************************************)
(* C32: the lifetime of a query-cache entry                                *)
(***************************************************************************)
\* C32: under the Redis cache and under the cache in memory alike, a
\* retrieve call made more than 1800 s after the entry of its query was
\* cached does not return the cached passages: every hit serves an entry that
\* is at most 1800 s old.
C32_NoHitAfterTTL ==
    (invocation.op = "retrieve" /\ invocation.hit) => invocation.age <= QueryCacheTTL

(***************************************************************************)
(* C33: external calls as suspension points                                *)
(***************************************************************************)
\* C33: every external call and every pacing delay is a suspension point:
\* while one request waits on it, any other request that is ready to run can
\* take its step on the same thread.
C33_WaitsSuspend ==
    \A r \in Requests, o \in Requests :
        (r /= o /\ carrier.waiting[r] /\ Ready(o)) => ENABLED EnterWait(o)

(***************************************************************************)
(* C34: the steps of a registry_violation plan                             *)
(***************************************************************************)
\* C34: every plan create_plan returns with action registry_violation has
\* an empty list of steps, whether the planner's own check of the tools found
\* the violation or the model declared it; and a plan one of whose steps
\* names a tool outside the registry is never returned as it is.
C34_ViolationHasNoSteps ==
    created /= NoData =>
        /\ created.plan.action = "registry_violation" => created.plan.steps = <<>>
        /\ \A i \in 1..Len(created.plan.steps) :
            <<created.plan.steps[i].tool>> \in PlannerToolNames(created.tools)

(***************************************************************************)
(* C35: the screener fails open                                            *)
(***************************************************************************)
\* C35: when the screener's model call raises or returns an object without
\* is_safe, inspect_query returns the permissive default, the request is not
\* blocked and goes on to the classifier and the gate as a request judged
\* safe does.
C35_ScreenerFailsOpen ==
    (invocation.op = "inspect_query" /\ invocation.failed) =>
        /\ invocation.assessment = DefaultAssessment
        /\ screened = [called |-> TRUE, is_safe |-> TRUE]
        /\ outcome \notin {"blocked", "raised"}
        /\ pc /= "screen"
        /\ pc = "classify" =>
            events = IF mode = "stream"
                     THEN <<Event("security", [is_safe |-> TRUE])>> ELSE <<>>
        /\ pc = "done" => gate.called /\ outcome \in {"insufficient", "unavailable"}

\* after a failure of the screener the request has passed the gate
C35_PassedGateAfterFailure ==
    /\ invocation.op = "inspect_query" /\ invocation.failed
    /\ pc = "plan" /\ gate.called /\ ~gate.failed

(***************************************************************************)
(* C36: a further report for a locked model                                *)
(***************************************************************************)
\* C36: a report_429 for a model whose stored unlock time has not yet passed
\* never leaves an earlier unlock time than the one stored before the call.
C36_ReportNeverShortensLock ==
    [][(reports' = reports + 1 /\ answer'.op = "report_429"
            /\ Has(locks, answer'.model) /\ locks[answer'.model] > now)
        => locks'[answer'.model] >= locks[answer'.model]
    ]_vars

(***************************************************************************)
(* C37: what reaches the tool executor                                     *)
(***************************************************************************)
\* the engine has just called tool_executor.execute_step
StepExecuted == pc = "exec" /\ Len(results') = Len(results) + 1

\* the tools execute_step has a branch for
ExecutorTools == {"hybrid_retriever", "web_search", "summarizer", "code_interpreter"}

\* C37: execute_step is called only for a step of the plan validated in the
\* same attempt; the step's tool is in the attempt's registry and its input
\* is a string, so the result never is the executor's unknown-tool error;
\* the registry is the one built from the attempt's classification, which
\* holds code_interpreter only when one of the two flags is true.
C37_OnlyValidatedStepsExecuted ==
    /\ [](RegistryBuilt =>
            (<<"code_interpreter">> \in allowed_tool_names
                <=> (history.intent.requires_computation
                        \/ history.intent.requires_external_execution)))
    /\ [][allowed_tool_names' /= allowed_tool_names =>
            pc = "classify" /\ history'.intent.classified]_vars
    /\ [][StepExecuted =>
            LET step == plan.steps[Len(results) + 1]
                res == results'[Len(results')]
            IN /\ history.verdict = "valid"
               /\ plan' = plan /\ attempt' = attempt
               /\ allowed_tool_names' = allowed_tool_names
               /\ Has(step, "tool") /\ <<step.tool>> \in allowed_tool_names
               /\ step.tool \in ExecutorTools
               /\ Has(step, "input") /\ step.input = "str"
               /\ res.tool = step.tool
               /\ res.output /= "Error: Unknown tool"
               /\ step.tool = "code_interpreter" =>
                    <<"code_interpreter">> \in AllowedToolNames(available_tools)
       ]_vars

\* the code interpreter has been executed as the first step of a plan
C37_CodeInterpreterExecuted ==
    /\ pc \in {"exec", "route"}
    /\ results /= <<>>
    /\ results[1].tool = "code_interpreter"
    /\ <<"code_interpreter">> \in allowed_tool_names

(***************************************************************************)
(* C38: the tokens a consumer has received                                 *)
(***************************************************************************)
\* the contents of the token events of es, in order
TokenContents(es) ==
    LET toks == SelectSeq(es, LAMBDA e : e.type = "token")
    IN [i \in 1..Len(toks) |-> toks[i].content]

\* C38: in streaming mode, when the evaluation that ends the loop is
\* computed, the token events emitted for the request so far (none follows)
\* are those of the response being evaluated: no earlier attempt has emitted
\* tokens, and this attempt's tokens concatenate to final_response.
C38_TokensAreTheEvaluatedResponse ==
    [][(mode = "stream" /\ pc = "evaluate" /\ pc' = "finish") =>
        /\ ~earlier.tokens
        /\ TokenContents(events) = final_response
    ]_vars

(***************************************************************************)
(* C39: which attempt the returned record describes                        *)
(***************************************************************************)
\* C39: a record process_query returns without an error holds the data of
\* the last attempt that was started, counts every attempt started, and its
\* evaluation is the one computed last, with the metrics added.
C39_RecordOfLastAttempt ==
    (mode = "buffered" /\ pc = "done" /\ outcome = "completed") =>
        /\ Has(returned, "data_of_attempt")
        /\ returned.data_of_attempt = attempt
        /\ returned.attempts = attempt + 1
        /\ returned.evaluation =
            [metrics |-> [estimated_cost_attempts |-> attempt + 1]] @@ evaluation

(***************************************************************************)
(* C40: the gate fails closed                                              *)
(***************************************************************************)
\* the collaborators that act after the gate
AfterGate == {"planner", "tool", "generator", "multi_agent", "evaluator"}

\* C40: when the gate's retrieval has raised, the request is over with the
\* outcome 'Retrieval system unavailable' (the error record in buffered
\* mode, one error event that ends the attempt's events in streaming mode),
\* no collaborator behind the gate was invoked in the attempt, and none is
\* invoked afterwards: nothing more is called or emitted.
C40_GateFailsClosed ==
    /\ []((gate.called /\ gate.failed) =>
            /\ pc = "done"
            /\ outcome = "unavailable"
            /\ \A c \in AfterGate : calls[c] = 0
            /\ mode = "buffered" => returned = [error |-> "Retrieval system unavailable"]
            /\ mode = "stream" =>
                /\ CountType(events, {"error"}) = 1
                /\ events[Len(events)] = Event("error", "Retrieval system unavailable")
                /\ CountType(events, {"plan", "step_result", "token", "evaluation",
                                      "complete"}) = 0)
    /\ [][(gate.called /\ gate.failed) =>
            /\ calls' = calls /\ plan_calls' = plan_calls
            /\ events' = events /\ returned' = returned
       ]_vars

\* the retrieval of the gate has raised on a retry, after an attempt that
\* went as far as its evaluation
C40_GateRaisedOnRetry ==
    /\ gate.called /\ gate.failed
    /\ attempt > 0
    /\ mode = "stream"
    /\ earlier.tokens

====
